---- MODULE Spec2Model ----
(***************************************************************************)
(* Verification model of the trading engine of crypto_ai_trader:          *)
(*   - ScalpingStrategy (src/src/strategies/scalping_strategy.py) with    *)
(*     BaseStrategy.update_position (src/src/strategies/base_strategy.py) *)
(*   - Backtester.run_backtest (src/src/strategies/backtester.py)         *)
(*                                                                         *)
(* A number is a rational <<numerator, denominator>> in lowest terms with *)
(* a positive denominator.  The strategy's arithmetic is exact; the       *)
(* backtester's float arithmetic rounds every result to the nearest       *)
(* binary float of FloatBits significant bits (ties to even), as IEEE 754 *)
(* does with 53.  Python's None is the empty set, a present value v is    *)
(* the singleton {v}.                                                     *)
(***************************************************************************)
EXTENDS Integers, Sequences, FiniteSets, TLC

----------------------------------------------------------------------------
(* Exact rational arithmetic                                               *)

Abs(x) == IF x < 0 THEN -x ELSE x

RECURSIVE GCD(_, _)
GCD(a, b) == IF b = 0 THEN a ELSE GCD(b, a % b)

Rat(n, d) ==
    LET g == GCD(Abs(n), Abs(d))
        s == IF d < 0 THEN -1 ELSE 1
    IN  IF n = 0 THEN <<0, 1>> ELSE <<(s * n) \div g, (s * d) \div g>>

R(n) == <<n, 1>>
RAdd(a, b) == Rat(a[1] * b[2] + b[1] * a[2], a[2] * b[2])
RSub(a, b) == Rat(a[1] * b[2] - b[1] * a[2], a[2] * b[2])
RMul(a, b) == Rat(a[1] * b[1], a[2] * b[2])
RDiv(a, b) == Rat(a[1] * b[2], a[2] * b[1])
RLt(a, b) == a[1] * b[2] < b[1] * a[2]
RLe(a, b) == a[1] * b[2] <= b[1] * a[2]
RGt(a, b) == RLt(b, a)
RGe(a, b) == RLe(b, a)
RMin(a, b) == IF RLe(a, b) THEN a ELSE b
RZero == R(0)
ROne == R(1)

(* Binary floating point: round to nearest, ties to even *)

FloatBits == 8      \* significant bits kept by a float

RECURSIVE Pow2(_)
Pow2(k) == IF k = 0 THEN 1 ELSE 2 * Pow2(k - 1)

(* n / d = (n' / d') * 2^e with 2^(FloatBits-1) <= n' / d' < 2^FloatBits *)
RECURSIVE Normalise(_, _, _)
Normalise(n, d, e) ==
    IF n >= d * Pow2(FloatBits)
    THEN IF n % 2 = 0 THEN Normalise(n \div 2, d, e + 1)
                     ELSE Normalise(n, 2 * d, e + 1)
    ELSE IF n < d * Pow2(FloatBits - 1)
    THEN IF d % 2 = 0 THEN Normalise(n, d \div 2, e - 1)
                     ELSE Normalise(2 * n, d, e - 1)
    ELSE <<n, d, e>>

(* the float nearest to the rational x *)
Fl(x) ==
    IF x[1] = 0 THEN <<0, 1>>
    ELSE LET s == IF x[1] < 0 THEN -1 ELSE 1
             t == Normalise(Abs(x[1]), x[2], 0)
             q == t[1] \div t[2]
             r == t[1] % t[2]
             m == IF 2 * r > t[2] \/ (2 * r = t[2] /\ q % 2 = 1) THEN q + 1 ELSE q
         IN  IF t[3] >= 0 THEN Rat(s * m * Pow2(t[3]), 1)
             ELSE Rat(s * m, Pow2(-t[3]))

FAdd(a, b) == Fl(RAdd(a, b))
FSub(a, b) == Fl(RSub(a, b))
FMul(a, b) == Fl(RMul(a, b))
FDiv(a, b) == Fl(RDiv(a, b))

----------------------------------------------------------------------------
(* Signal enum, base_strategy.py                                           *)

BUY == "BUY"
SELL == "SELL"
HOLD == "HOLD"
Signal == {BUY, SELL, HOLD}

(* generate_signal leaving by an uncaught IndexError instead of returning *)
INDEX_ERROR == "IndexError"

None == {}
Some(v) == {v}
TheValue(o) == CHOOSE v \in o : TRUE

----------------------------------------------------------------------------
(* Order books: a dict with 'bids' and 'asks' lists of [price, volume]     *)
(* levels, best level first; None and dicts lacking a key also occur.      *)

Book(bids, asks) ==
    [is_none |-> FALSE, keys |-> {"bids", "asks"}, bids |-> bids, asks |-> asks]
NoneBook == [is_none |-> TRUE, keys |-> {}, bids |-> <<>>, asks |-> <<>>]
DictWithKeys(ks) == [is_none |-> FALSE, keys |-> ks, bids |-> <<>>, asks |-> <<>>]

(* Python truthiness of `order_book`: None and the empty dict are falsy *)
Falsy(order_book) == order_book.is_none \/ order_book.keys = {}

RECURSIVE SumVolume(_, _)
SumVolume(levels, n) ==
    IF n <= 0 \/ levels = <<>> THEN 0
    ELSE levels[1][2] + SumVolume(Tail(levels), n - 1)

----------------------------------------------------------------------------
(* ScalpingStrategy                                                        *)

CooldownPeriod == 5

FLAT == "NONE"
LONG == "LONG"
SHORT == "SHORT"

ImbalanceRatio == <<3, 2>>
EntryFraction == <<1, 10>>

Position(side, entry, tp, sl) ==
    [current_position |-> side, entry_price |-> entry,
     take_profit_price |-> tp, stop_loss_price |-> sl]

(* _open_position *)
OpenPosition(side, entry, pt, sl) ==
    IF side = LONG
    THEN Position(side, entry, RMul(entry, RAdd(ROne, pt)), RMul(entry, RSub(ROne, sl)))
    ELSE Position(side, entry, RMul(entry, RSub(ROne, pt)), RMul(entry, RAdd(ROne, sl)))

(* the attributes as __init__ leaves them *)
NoPosition == Position(FLAT, RZero, RZero, RZero)

(* _close_position *)
ClosePosition == Position(FLAT, RZero, RZero, RZero)

(* the cooldown test at the head of generate_signal *)
InCooldown(last, now) ==
    /\ last # None
    /\ now # None
    /\ TheValue(now) - TheValue(last) < CooldownPeriod

BestPriceOrZero(levels) == IF levels # <<>> THEN levels[1][1] ELSE 0

(* the mark price of _manage_existing_position and _execute_trade *)
MarkPrice(order_book) ==
    LET best_bid == BestPriceOrZero(order_book.bids)
        best_ask == BestPriceOrZero(order_book.asks)
    IN  IF best_bid # 0 /\ best_ask # 0 THEN Rat(best_bid + best_ask, 2) ELSE RZero

(* a _manage_existing_position whose take-profit tests are strict *)
ManageExistingPositionStrictTakeProfit(side, tp, sl, order_book) ==
    LET hold == [signal |-> HOLD, close |-> FALSE]
        current_price == MarkPrice(order_book)
    IN  IF Falsy(order_book) \/ "bids" \notin order_book.keys
                             \/ "asks" \notin order_book.keys
        THEN hold
        ELSE IF RLe(current_price, RZero) THEN hold
        ELSE IF side = LONG
        THEN IF RGt(current_price, tp) THEN [signal |-> SELL, close |-> TRUE]
             ELSE IF RLe(current_price, sl) THEN [signal |-> SELL, close |-> TRUE]
             ELSE hold
        ELSE IF side = SHORT
        THEN IF RLt(current_price, tp) THEN [signal |-> BUY, close |-> TRUE]
             ELSE IF RGe(current_price, sl) THEN [signal |-> BUY, close |-> TRUE]
             ELSE hold
        ELSE hold

(* _manage_existing_position: the signal and whether the position closes *)
ManageExistingPosition(side, tp, sl, order_book) ==
    LET hold == [signal |-> HOLD, close |-> FALSE]
        current_price == MarkPrice(order_book)
    IN  IF Falsy(order_book) \/ "bids" \notin order_book.keys
                             \/ "asks" \notin order_book.keys
        THEN hold
        ELSE IF RLe(current_price, RZero) THEN hold
        ELSE IF side = LONG
        THEN IF RGe(current_price, tp) THEN [signal |-> SELL, close |-> TRUE]
             ELSE IF RLe(current_price, sl) THEN [signal |-> SELL, close |-> TRUE]
             ELSE hold
        ELSE IF side = SHORT
        THEN IF RLe(current_price, tp) THEN [signal |-> BUY, close |-> TRUE]
             ELSE IF RGe(current_price, sl) THEN [signal |-> BUY, close |-> TRUE]
             ELSE hold
        ELSE hold

(* _analyze_order_book_for_entry: the signal, the side opened (FLAT when    *)
(* none is) and the entry price.  Indexing [0] of an empty list raises.    *)
AnalyzeOrderBookForEntry(depth, spread_min, order_book) ==
    LET out(sig) == [signal |-> sig, side |-> FLAT, entry |-> RZero]
        bids == order_book.bids
        asks == order_book.asks
    IN  IF Falsy(order_book) \/ "bids" \notin order_book.keys
                             \/ "asks" \notin order_book.keys
        THEN out(HOLD)
        ELSE IF Len(bids) < depth \/ Len(asks) < depth THEN out(HOLD)
        ELSE IF bids = <<>> \/ asks = <<>> THEN out(INDEX_ERROR)
        ELSE LET best_bid == bids[1][1]
                 best_ask == asks[1][1]
                 spread == best_ask - best_bid
                 bid_volume == SumVolume(bids, depth)
                 ask_volume == SumVolume(asks, depth)
             IN  IF best_bid <= 0 \/ best_ask <= 0 THEN out(HOLD)
                 ELSE IF RLt(Rat(spread, best_bid), spread_min) THEN out(HOLD)
                 ELSE IF RGt(R(bid_volume), RMul(R(ask_volume), ImbalanceRatio))
                 THEN [signal |-> BUY, side |-> LONG,
                       entry |-> RSub(R(best_ask), RMul(R(spread), EntryFraction))]
                 ELSE IF RGt(R(ask_volume), RMul(R(bid_volume), ImbalanceRatio))
                 THEN [signal |-> SELL, side |-> SHORT,
                       entry |-> RAdd(R(best_bid), RMul(R(spread), EntryFraction))]
                 ELSE out(HOLD)

(* a generate_signal that looks for an entry whether or not a position is  *)
(* open                                                                    *)
GenerateSignalResultAlwaysEntering(cur, last, pt, sl, depth, spread_min, order_book, now) ==
    IF InCooldown(last, now)
    THEN [signal |-> HOLD, pos |-> cur]
    ELSE LET a == AnalyzeOrderBookForEntry(depth, spread_min, order_book)
         IN  [signal |-> a.signal,
              pos |-> IF a.side # FLAT THEN OpenPosition(a.side, a.entry, pt, sl)
                      ELSE cur]

(* a generate_signal whose exit resets the side and leaves the prices of   *)
(* the closed position in place                                            *)
GenerateSignalResultKeepingPrices(cur, last, pt, sl, depth, spread_min, order_book, now) ==
    IF InCooldown(last, now)
    THEN [signal |-> HOLD, pos |-> cur]
    ELSE IF cur.current_position # FLAT
    THEN LET m == ManageExistingPosition(cur.current_position,
                      cur.take_profit_price, cur.stop_loss_price, order_book)
         IN  [signal |-> m.signal,
              pos |-> IF m.close THEN [cur EXCEPT !.current_position = FLAT]
                      ELSE cur]
    ELSE LET a == AnalyzeOrderBookForEntry(depth, spread_min, order_book)
         IN  [signal |-> a.signal,
              pos |-> IF a.side # FLAT THEN OpenPosition(a.side, a.entry, pt, sl)
                      ELSE cur]

(* generate_signal on strategy state `cur` (a Position record): the signal *)
(* returned and the position state left behind.                            *)
GenerateSignalResult(cur, last, pt, sl, depth, spread_min, order_book, now) ==
    IF InCooldown(last, now)
    THEN [signal |-> HOLD, pos |-> cur]
    ELSE IF cur.current_position # FLAT
    THEN LET m == ManageExistingPosition(cur.current_position,
                      cur.take_profit_price, cur.stop_loss_price, order_book)
         IN  [signal |-> m.signal, pos |-> IF m.close THEN ClosePosition ELSE cur]
    ELSE LET a == AnalyzeOrderBookForEntry(depth, spread_min, order_book)
         IN  [signal |-> a.signal,
              pos |-> IF a.side # FLAT THEN OpenPosition(a.side, a.entry, pt, sl)
                      ELSE cur]

(* BaseStrategy.update_position: the base `position` and the entry_price   *)
(* attribute, which ScalpingStrategy shares with its base class.           *)
BaseUpdatePosition(pos, entry, sig, price) ==
    IF sig = BUY /\ pos # BUY THEN [position |-> BUY, entry_price |-> price]
    ELSE IF sig = SELL /\ pos # SELL THEN [position |-> SELL, entry_price |-> entry]
    ELSE IF sig = HOLD THEN [position |-> HOLD, entry_price |-> entry]
    ELSE [position |-> pos, entry_price |-> entry]

----------------------------------------------------------------------------
(* State                                                                   *)

VARIABLES
    (* ScalpingStrategy attributes *)
    profit_target, stop_loss, order_book_depth, min_spread,
    current_position, entry_price, take_profit_price, stop_loss_price,
    last_signal_time,
    position,           \* BaseStrategy.position
    (* the caller of the strategy: the call in progress and its result *)
    pc,                 \* "idle", "called" (arguments bound), "returned"
    order_book, current_time, signal,
    before,             \* the position state when generate_signal was entered
    clock,              \* the latest timestamp handed to the strategy
    last_emit_time,     \* timestamp of the last call that returned BUY or SELL
    (* Backtester attributes and the locals of run_backtest *)
    initial_capital, commission,
    data,               \* the close prices of the bars, in time order
    bt_pc,              \* "off", "loop" (in the for loop), "done" (returned)
    i,                  \* number of bars replayed so far
    capital, held,      \* `capital` and `position` (units held) of run_backtest
    equity_curve, trades,
    results,            \* the report returned, once bt_pc = "done"
    current_data,       \* the bars handed to the strategy on the latest step
    run,                \* 1 on the first run_backtest of the instance, then 2
    answers,            \* what the strategy answered on each bar of run 1
    first,              \* the ledger and the equity curve of run 1
    (* the orderbook monitor: one call of detect_discrepancies *)
    orderbooks,         \* the snapshot map, exchanges in iteration order
    threshold_percentage,
    mon_pc,             \* "off", "fetched" (snapshot taken), "detected"
    selection,          \* per examined pair: the exchanges picked
    opportunities,      \* the opportunities printed, in order
    raised,             \* the exception detect_discrepancies left by, or None
    (* one call of calculate_weighted_price *)
    orders,             \* the ladder walked: a sequence of <<price, volume>>
    target_volume,
    fill_pc,            \* "off", "called", "returned"
    weighted_price,     \* the value returned: None or Some(price)
    (* the Alpha Vantage key manager (the module-level _key_manager) *)
    api_keys,           \* the keys kept by __init__, in list order
    current_key_index,
    key_usage_count,
    key_pc,             \* "off" or "ready" (initialize_key_manager has run)
    key_calls,          \* the methods called so far, in order
    key_returned,       \* what the last method called returned, or None
    (* one call of call_alpha_vantage_api_with_retry *)
    max_retries,
    attempt,            \* the loop variable
    retry_pc,           \* "off", "loop", "returned"
    attempts,           \* what requests.get did on each attempt, in order
    retry_result,       \* the value returned: None or Some(data)
    (* ScalpingBot: the risk manager's capital and the last trading cycle *)
    current_capital,
    bot_pc,             \* "off", "started", "cycled" (a cycle has ended)
    placed,             \* the orders the last cycle handed to place_order
    cycle_start,        \* cooldown timestamp and capital when it began
    (* main of the orderbook monitor: the loop and the shutdown *)
    exchange_instances, \* the exchanges initialised, in configuration order
    iteration,
    main_pc,            \* "off", "loop", "closing", "done"
    stopped_by,         \* the exception that ended the loop, or None
    close_calls,        \* the close() calls made, in order
    (* one SymbolState of the futures monitor *)
    oi_history,
    max_len,            \* the max_len every add_oi call is given
    oi_pc,              \* "off" or "ready"
    arrivals,           \* every value given to add_oi, in order
    mean_n,             \* the n of a get_last_n_mean call just made, or None
    mean_result,        \* what that call returned: None or Some(mean)
    (* one CryptoNewsMonitor *)
    news_cache,         \* the ids seen
    cache_file,         \* the ids in news_cache.json
    news_pc,            \* "off" or "ready"
    cycles,             \* check_for_new_news calls made
    new_articles,       \* what the last call returned
    returned,           \* every article any call returned, in order
    cache_before        \* news_cache when the last call began

strategyVars == <<profit_target, stop_loss, order_book_depth, min_spread,
                  current_position, entry_price, take_profit_price,
                  stop_loss_price, last_signal_time, position>>
configVars == <<profit_target, stop_loss, order_book_depth, min_spread>>
callVars == <<pc, order_book, current_time, signal, before, clock, last_emit_time>>
backtestVars == <<initial_capital, commission, data, bt_pc, i, capital, held,
                  equity_curve, trades, results, current_data, run, answers,
                  first>>
monitorVars == <<orderbooks, threshold_percentage, mon_pc, selection,
                 opportunities, raised>>
fillVars == <<orders, target_volume, fill_pc, weighted_price>>
keyVars == <<api_keys, current_key_index, key_usage_count, key_pc, key_calls,
             key_returned>>
retryVars == <<max_retries, attempt, retry_pc, attempts, retry_result>>
botVars == <<current_capital, bot_pc, placed, cycle_start>>
mainVars == <<exchange_instances, iteration, main_pc, stopped_by, close_calls>>
oiVars == <<oi_history, max_len, oi_pc, arrivals, mean_n, mean_result>>
newsVars == <<news_cache, cache_file, news_pc, cycles, new_articles, returned,
              cache_before>>
utilityVars == <<fillVars, keyVars, retryVars, botVars, mainVars, oiVars,
                 newsVars>>
vars == <<strategyVars, callVars, backtestVars, monitorVars, utilityVars>>

Current == Position(current_position, entry_price, take_profit_price, stop_loss_price)

----------------------------------------------------------------------------
(* Inputs                                                                  *)

MaxLevels == 2      \* longest ladder handed to the strategy
MaxDepth == 2       \* largest order_book_depth constructed
MaxTime == 5        \* timestamps run from 0 to MaxTime seconds

ProfitTargets == {<<1, 20>>}
StopLosses == {<<1, 20>>}
MinSpreads == {<<0, 1>>, <<1, 20>>}
Depths == 0..MaxDepth

GoodBidPrices == {90, 100}
GoodAskPrices == {100, 110}
BadBidPrices == {-10, 0}
BadAskPrices == {0}
BidVolumes == {1, 3}
AskVolumes == {1, 2, 3}
UpdatePrices == {R(100)}

(* a ladder of n levels: best price p, prices stepping by `step`, volume v *)
(* on the best level and 1 on every deeper level                           *)
Ladder(p, v, n, step) ==
    [k \in 1..n |-> <<p + step * (k - 1), IF k = 1 THEN v ELSE 1>>]

(* full-length ladders at every good price and volume, one short ladder,   *)
(* the empty ladder and one-level ladders at a non-positive price          *)
BidLadders ==
    {<<>>} \cup {Ladder(p, 1, 1, -1) : p \in BadBidPrices \cup {100}}
           \cup {Ladder(p, v, MaxLevels, -1) : p \in GoodBidPrices, v \in BidVolumes}
AskLadders ==
    {<<>>} \cup {Ladder(p, 1, 1, 1) : p \in BadAskPrices \cup {100}}
           \cup {Ladder(p, v, MaxLevels, 1) : p \in GoodAskPrices, v \in AskVolumes}

OrderBooks ==
    {NoneBook, DictWithKeys({}), DictWithKeys({"bids"}), DictWithKeys({"asks"})}
        \cup {Book(b, a) : b \in BidLadders, a \in AskLadders}

(* timestamps the caller may pass next: the clock never runs backwards *)
NextTimes == {t \in clock..MaxTime : t - clock \in {0, CooldownPeriod}}

----------------------------------------------------------------------------
(* ScalpingStrategy.__init__: every argument is stored as given            *)

StrategyInit ==
    /\ profit_target \in ProfitTargets
    /\ stop_loss \in StopLosses
    /\ order_book_depth \in Depths
    /\ min_spread \in MinSpreads
    /\ current_position = FLAT
    /\ entry_price = RZero
    /\ take_profit_price = RZero
    /\ stop_loss_price = RZero
    /\ last_signal_time = None
    /\ position = HOLD

IdleCall ==
    /\ pc = "idle"
    /\ order_book = NoneBook
    /\ current_time = None
    /\ signal = HOLD
    /\ before = NoPosition

NoResults ==
    [final_equity |-> RZero, total_return |-> RZero, max_drawdown |-> RZero,
     number_of_trades |-> 0]

NoRun == [trades |-> <<>>, equity_curve |-> <<>>]

(* no backtest is running *)
BacktestOff ==
    /\ initial_capital = RZero
    /\ commission = RZero
    /\ data = <<>>
    /\ bt_pc = "off"
    /\ i = 0
    /\ capital = RZero
    /\ held = RZero
    /\ equity_curve = <<>>
    /\ trades = <<>>
    /\ results = NoResults
    /\ current_data = <<>>
    /\ run = 1
    /\ answers = <<>>
    /\ first = NoRun

(* the monitor is not running *)
MonitorOff ==
    /\ orderbooks = <<>>
    /\ threshold_percentage = RZero
    /\ mon_pc = "off"
    /\ selection = <<>>
    /\ opportunities = <<>>
    /\ raised = None

(* calculate_weighted_price is not being called *)
FillOff ==
    /\ orders = <<>>
    /\ target_volume = RZero
    /\ fill_pc = "off"
    /\ weighted_price = None

(* initialize_key_manager has not run *)
KeysOff ==
    /\ api_keys = <<>>
    /\ current_key_index = 0
    /\ key_usage_count = <<>>
    /\ key_pc = "off"
    /\ key_calls = <<>>
    /\ key_returned = None

(* call_alpha_vantage_api_with_retry is not running *)
RetryOff ==
    /\ max_retries = 0
    /\ attempt = 0
    /\ retry_pc = "off"
    /\ attempts = <<>>
    /\ retry_result = None

(* no ScalpingBot has been constructed *)
BotOff ==
    /\ current_capital = RZero
    /\ bot_pc = "off"
    /\ placed = <<>>
    /\ cycle_start = [last_signal_time |-> None, current_capital |-> RZero]

(* main of the orderbook monitor has not been started *)
MainOff ==
    /\ exchange_instances = <<>>
    /\ iteration = 0
    /\ main_pc = "off"
    /\ stopped_by = None
    /\ close_calls = <<>>

(* no SymbolState exists *)
OiOff ==
    /\ oi_history = <<>>
    /\ max_len = 0
    /\ oi_pc = "off"
    /\ arrivals = <<>>
    /\ mean_n = None
    /\ mean_result = None

(* no CryptoNewsMonitor exists *)
NewsOff ==
    /\ news_cache = {}
    /\ cache_file = {}
    /\ news_pc = "off"
    /\ cycles = 0
    /\ new_articles = <<>>
    /\ returned = <<>>
    /\ cache_before = {}

UtilitiesOff ==
    /\ FillOff
    /\ KeysOff
    /\ RetryOff
    /\ BotOff
    /\ MainOff
    /\ OiOff
    /\ NewsOff

Init ==
    /\ StrategyInit
    /\ IdleCall
    /\ clock = 0
    /\ last_emit_time = None
    /\ BacktestOff
    /\ MonitorOff
    /\ UtilitiesOff

(* the caller binds the arguments of generate_signal(order_book, current_time) *)
Call(ob, now) ==
    /\ pc = "idle"
    /\ pc' = "called"
    /\ order_book' = ob
    /\ current_time' = now
    /\ clock' = IF now = None THEN clock ELSE TheValue(now)
    /\ UNCHANGED <<strategyVars, signal, before, last_emit_time, backtestVars, monitorVars, utilityVars>>

(* generate_signal *)
GenerateSignal ==
    /\ pc = "called"
    /\ LET r == GenerateSignalResult(Current, last_signal_time, profit_target,
                    stop_loss, order_book_depth, min_spread, order_book, current_time)
       IN  /\ signal' = r.signal
           /\ current_position' = r.pos.current_position
           /\ entry_price' = r.pos.entry_price
           /\ take_profit_price' = r.pos.take_profit_price
           /\ stop_loss_price' = r.pos.stop_loss_price
    /\ before' = Current
    /\ pc' = "returned"
    /\ UNCHANGED <<configVars, last_signal_time, position, order_book,
                   current_time, clock, last_emit_time, backtestVars, monitorVars, utilityVars>>

(* the caller takes the signal and drops the call's arguments; the time of *)
(* a call that answered BUY or SELL is remembered                          *)
Return ==
    /\ pc = "returned"
    /\ pc' = "idle"
    /\ last_emit_time' = IF signal \in {BUY, SELL} /\ current_time # None
                         THEN current_time ELSE last_emit_time
    /\ order_book' = NoneBook
    /\ current_time' = None
    /\ signal' = HOLD
    /\ before' = NoPosition
    /\ UNCHANGED <<strategyVars, clock, backtestVars, monitorVars, utilityVars>>

(* ScalpingStrategy.update_position(signal, price, timestamp) *)
UpdatePosition(sig, price, timestamp) ==
    /\ pc = "idle"
    /\ LET b == BaseUpdatePosition(position, entry_price, sig, price)
       IN  /\ position' = b.position
           /\ entry_price' = b.entry_price
    /\ last_signal_time' = Some(timestamp)
    /\ clock' = timestamp
    /\ UNCHANGED <<configVars, current_position, take_profit_price, stop_loss_price,
                   pc, order_book, current_time, signal, before, last_emit_time,
                   backtestVars, monitorVars, utilityVars>>

(* any caller: generate_signal with any order book, with or without a time *)
CallGenerateSignal ==
    \E ob \in OrderBooks, now \in {None} \cup {Some(t) : t \in NextTimes} :
        Call(ob, now)

(* any caller: update_position with any signal at any later time *)
CallUpdatePosition ==
    \E sig \in Signal, price \in UpdatePrices, t \in NextTimes :
        UpdatePosition(sig, price, t)

Next ==
    \/ CallGenerateSignal
    \/ GenerateSignal
    \/ Return
    \/ CallUpdatePosition

Spec == Init /\ [][Next]_vars

----------------------------------------------------------------------------
(* Backtester.run_backtest                                                 *)

MaxBars == 3        \* longest price series replayed

Closes == {R(10), R(11), R(40)}
InitialCapitals == {R(100)}
Commissions == {RZero, Fl(<<1, 10>>)}

RECURSIVE SeqsUpTo(_, _)
SeqsUpTo(S, n) ==
    IF n = 0 THEN {<<>>}
    ELSE LET shorter == SeqsUpTo(S, n - 1)
         IN  shorter \cup {Append(q, x) : q \in {r \in shorter : Len(r) = n - 1}, x \in S}

RECURSIVE RMaxOf(_)
RMaxOf(q) ==
    IF Len(q) = 1 THEN q[1]
    ELSE LET m == RMaxOf(Tail(q)) IN IF RGe(q[1], m) THEN q[1] ELSE m

RECURSIVE RMinOf(_)
RMinOf(q) ==
    IF Len(q) = 1 THEN q[1]
    ELSE LET m == RMinOf(Tail(q)) IN IF RLe(q[1], m) THEN q[1] ELSE m

(* lines 94-96: the drawdown of every equity point against max(equity_curve) *)
MaxDrawdown(curve, initial) ==
    LET max_equity == IF curve # <<>> THEN RMaxOf(curve) ELSE initial
    IN  IF curve # <<>>
        THEN RMinOf([k \in 1..Len(curve) |->
                        FDiv(FSub(curve[k], max_equity), max_equity)])
        ELSE RZero

(* lines 92-110: the report computed once the loop is over *)
Report(curve, ledger, initial) ==
    LET final_equity == IF curve # <<>> THEN curve[Len(curve)] ELSE initial
    IN  [final_equity |-> final_equity,
         total_return |-> FDiv(FSub(final_equity, initial), initial),
         max_drawdown |-> MaxDrawdown(curve, initial),
         number_of_trades |-> Len(ledger)]

Trade(timestamp, action, price, amount, fee) ==
    [timestamp |-> timestamp, action |-> action, price |-> price,
     amount |-> amount, fee |-> fee]

(* a buy step that pays its fee out of the capital it spends *)
ExecuteBarBuyNetOfFee(cap, units, ledger, sig, price, rate, timestamp) ==
    IF sig = BUY /\ units = RZero
    THEN LET fee == FMul(cap, rate)
             amount == FDiv(FSub(cap, fee), price)
         IN  [capital |-> RZero, held |-> amount,
              trades |-> Append(ledger, Trade(timestamp, "BUY", price, amount, fee))]
    ELSE IF sig = SELL /\ RGt(units, RZero)
    THEN LET amount == units
             fee == FMul(FMul(amount, price), rate)
         IN  [capital |-> FSub(FMul(amount, price), fee), held |-> RZero,
              trades |-> Append(ledger, Trade(timestamp, "SELL", price, amount, fee))]
    ELSE [capital |-> cap, held |-> units, trades |-> ledger]

(* a sell step that records its fee and does not charge it *)
ExecuteBarSellGross(cap, units, ledger, sig, price, rate, timestamp) ==
    IF sig = BUY /\ units = RZero
    THEN LET amount == FDiv(cap, price)
             fee == FMul(FMul(amount, price), rate)
         IN  [capital |-> RZero, held |-> amount,
              trades |-> Append(ledger, Trade(timestamp, "BUY", price, amount, fee))]
    ELSE IF sig = SELL /\ RGt(units, RZero)
    THEN LET amount == units
             fee == FMul(FMul(amount, price), rate)
         IN  [capital |-> FMul(amount, price), held |-> RZero,
              trades |-> Append(ledger, Trade(timestamp, "SELL", price, amount, fee))]
    ELSE [capital |-> cap, held |-> units, trades |-> ledger]

(* a step that buys on every Buy, whether or not units are held *)
ExecuteBarIgnoringHoldings(cap, units, ledger, sig, price, rate, timestamp) ==
    IF sig = BUY
    THEN LET amount == FDiv(cap, price)
             fee == FMul(FMul(amount, price), rate)
         IN  [capital |-> RZero, held |-> amount,
              trades |-> Append(ledger, Trade(timestamp, "BUY", price, amount, fee))]
    ELSE IF sig = SELL /\ RGt(units, RZero)
    THEN LET amount == units
             fee == FMul(FMul(amount, price), rate)
         IN  [capital |-> FSub(FMul(amount, price), fee), held |-> RZero,
              trades |-> Append(ledger, Trade(timestamp, "SELL", price, amount, fee))]
    ELSE [capital |-> cap, held |-> units, trades |-> ledger]

(* a sell step that sells the units and still keeps them *)
ExecuteBarSellKeepingUnits(cap, units, ledger, sig, price, rate, timestamp) ==
    IF sig = BUY /\ units = RZero
    THEN LET amount == FDiv(cap, price)
             fee == FMul(FMul(amount, price), rate)
         IN  [capital |-> RZero, held |-> amount,
              trades |-> Append(ledger, Trade(timestamp, "BUY", price, amount, fee))]
    ELSE IF sig = SELL /\ RGt(units, RZero)
    THEN LET amount == units
             fee == FMul(FMul(amount, price), rate)
         IN  [capital |-> FSub(FMul(amount, price), fee), held |-> units,
              trades |-> Append(ledger, Trade(timestamp, "SELL", price, amount, fee))]
    ELSE [capital |-> cap, held |-> units, trades |-> ledger]

(* the whole series handed to the strategy on every step *)
VisibleBarsWholeSeries(series, k) == series

(* line 50: data.iloc[:i+1] if i > 0 else data.iloc[[0]], the bars handed  *)
(* to the strategy on step k (counted from 0)                              *)
VisibleBars(series, k) ==
    IF k > 0 THEN SubSeq(series, 1, k + 1) ELSE SubSeq(series, 1, 1)

(* a run that goes on with the capital and the units the last run left *)
RunLocalsCarriedOver(initial) ==
    [capital |-> capital, held |-> held, equity_curve |-> <<>>, trades |-> <<>>]

(* lines 41-44: the locals of run_backtest before the loop *)
RunLocals(initial) ==
    [capital |-> initial, held |-> RZero, equity_curve |-> <<>>, trades |-> <<>>]

(* lines 57-85: one bar's trade execution on (capital, held, trades) *)
ExecuteBar(cap, units, ledger, sig, price, rate, timestamp) ==
    IF sig = BUY /\ units = RZero
    THEN LET amount == FDiv(cap, price)
             fee == FMul(FMul(amount, price), rate)
         IN  [capital |-> RZero, held |-> amount,
              trades |-> Append(ledger, Trade(timestamp, "BUY", price, amount, fee))]
    ELSE IF sig = SELL /\ RGt(units, RZero)
    THEN LET amount == units
             fee == FMul(FMul(amount, price), rate)
         IN  [capital |-> FSub(FMul(amount, price), fee), held |-> RZero,
              trades |-> Append(ledger, Trade(timestamp, "SELL", price, amount, fee))]
    ELSE [capital |-> cap, held |-> units, trades |-> ledger]

(* a strategy at its defaults that is never called during a backtest *)
StrategyIdle ==
    /\ profit_target = <<1, 1000>>
    /\ stop_loss = <<1, 2000>>
    /\ order_book_depth = 10
    /\ min_spread = <<1, 10000>>
    /\ current_position = FLAT
    /\ entry_price = RZero
    /\ take_profit_price = RZero
    /\ stop_loss_price = RZero
    /\ last_signal_time = None
    /\ position = HOLD

(* Backtester.__init__ and lines 40-44 of run_backtest *)
BacktestInit ==
    /\ StrategyIdle
    /\ IdleCall
    /\ clock = 0
    /\ last_emit_time = None
    /\ initial_capital \in InitialCapitals
    /\ commission \in Commissions
    /\ data \in SeqsUpTo(Closes, MaxBars)
    /\ bt_pc = "loop"
    /\ i = 0
    /\ capital = initial_capital
    /\ held = RZero
    /\ equity_curve = <<>>
    /\ trades = <<>>
    /\ results = NoResults
    /\ current_data = <<>>
    /\ run = 1
    /\ answers = <<>>
    /\ first = NoRun
    /\ MonitorOff
    /\ UtilitiesOff

(* one iteration of the for loop, lines 49-89; `sig` is what the strategy  *)
(* under test answers for the bars up to this one.  The strategies of      *)
(* base_strategy.py compute their answer from the bars they are handed and *)
(* keep no state, so run 2 gets the answers of run 1.                      *)
ReplayBar(sig) ==
    /\ bt_pc = "loop"
    /\ i < Len(data)
    /\ sig \in (IF run = 1 THEN Signal ELSE {answers[i + 1]})
    /\ current_data' = VisibleBars(data, i)
    /\ signal' = sig
    /\ answers' = IF run = 1 THEN Append(answers, sig) ELSE answers
    /\ LET current_price == data[i + 1]
           e == ExecuteBar(capital, held, trades, sig, current_price, commission, i)
       IN  /\ capital' = e.capital
           /\ held' = e.held
           /\ trades' = e.trades
           /\ equity_curve' = Append(equity_curve,
                                     FAdd(e.capital, FMul(e.held, current_price)))
    /\ i' = i + 1
    /\ UNCHANGED <<initial_capital, commission, data, bt_pc, results, run, first,
                   strategyVars, pc, order_book, current_time, before, clock,
                   last_emit_time, monitorVars, utilityVars>>

(* lines 91-115: the loop is over, the report is computed and returned *)
FinishBacktest ==
    /\ bt_pc = "loop"
    /\ i = Len(data)
    /\ results' = Report(equity_curve, trades, initial_capital)
    /\ bt_pc' = "done"
    /\ UNCHANGED <<initial_capital, commission, data, i, capital, held,
                   equity_curve, trades, current_data, run, answers, first,
                   strategyVars, callVars, monitorVars, utilityVars>>

(* run_backtest called again on the same Backtester with the same strategy *)
(* and data, as compare_strategies does for each strategy in turn          *)
RunAgain ==
    /\ bt_pc = "done"
    /\ run = 1
    /\ first' = [trades |-> trades, equity_curve |-> equity_curve]
    /\ run' = 2
    /\ LET l == RunLocals(initial_capital)
       IN  /\ capital' = l.capital
           /\ held' = l.held
           /\ equity_curve' = l.equity_curve
           /\ trades' = l.trades
    /\ bt_pc' = "loop"
    /\ i' = 0
    /\ current_data' = <<>>
    /\ signal' = HOLD
    /\ UNCHANGED <<initial_capital, commission, data, results, answers,
                   strategyVars, pc, order_book, current_time, before, clock,
                   last_emit_time, monitorVars, utilityVars>>

(* the strategy under test answers the bar *)
StepBacktest == \E sig \in Signal : ReplayBar(sig)

BacktestNext ==
    \/ StepBacktest
    \/ FinishBacktest
    \/ RunAgain

SpecBacktest == BacktestInit /\ [][BacktestNext]_vars

----------------------------------------------------------------------------
(* The orderbook monitor: detect_discrepancies of                          *)
(* crypto_orderbook_monitor/main.py.  The snapshot map is a sequence of    *)
(* [name, pairs] in the dict's iteration order; `pairs` maps the pairs     *)
(* whose fetch succeeded to their orderbooks.                              *)

Exchanges == <<"binance", "okx", "coinbase">>
TradingPairs == <<"SOL/USDT">>

NO_EXCHANGE == "None"
ZERO_DIVISION_ERROR == "ZeroDivisionError"

QuotedBidPrices == {0, 100, 102}
QuotedAskPrices == {0, 100, 101}
Thresholds == {R(-1), R(0), R(1), R(2)}

(* what one exchange may hold for a pair: nothing (the fetch failed), None *)
(* or an orderbook whose sides are empty or have one level of volume 1     *)
FetchedBooks ==
    {NoneBook} \cup
    {Book(b, a) : b \in {<<>>} \cup {<<<<p, 1>>>> : p \in QuotedBidPrices},
                  a \in {<<>>} \cup {<<<<p, 1>>>> : p \in QuotedAskPrices}}

PairMaps ==
    {<<>>} \cup {[k \in {1} |-> ob] : ob \in FetchedBooks}

HasPair(pairs, pair) == \E k \in DOMAIN pairs : TradingPairs[k] = pair
BookOf(pairs, pair) == pairs[CHOOSE k \in DOMAIN pairs : TradingPairs[k] = pair]

Snapshots ==
    {<<>>} \cup
    {[k \in 1..Len(Exchanges) |-> [name |-> Exchanges[k], pairs |-> m[k]]] :
        m \in [1..Len(Exchanges) -> PairMaps]}

(* lines 133-141: best_bids / best_asks with bid_volumes / ask_volumes, in *)
(* the order the exchanges were inserted                                   *)
RECURSIVE BestLevels(_, _, _)
BestLevels(books, pair, side) ==
    IF books = <<>> THEN <<>>
    ELSE LET x == Head(books)
             rest == BestLevels(Tail(books), pair, side)
         IN  IF /\ HasPair(x.pairs, pair)
                /\ ~Falsy(BookOf(x.pairs, pair))
                /\ side \in BookOf(x.pairs, pair).keys
                /\ Len(BookOf(x.pairs, pair)[side]) > 0
             THEN <<[exchange |-> x.name,
                     price |-> BookOf(x.pairs, pair)[side][1][1],
                     volume |-> BookOf(x.pairs, pair)[side][1][2]]>> \o rest
             ELSE rest

(* a max() that keeps the last of several equal maxima *)
RECURSIVE MaxByPriceLast(_, _)
MaxByPriceLast(best, rest) ==
    IF rest = <<>> THEN best
    ELSE MaxByPriceLast(IF Head(rest).price >= best.price THEN Head(rest) ELSE best,
                        Tail(rest))

(* max(best_bids, key=best_bids.get): the first of several equal maxima *)
RECURSIVE MaxByPrice(_, _)
MaxByPrice(best, rest) ==
    IF rest = <<>> THEN best
    ELSE MaxByPrice(IF Head(rest).price > best.price THEN Head(rest) ELSE best,
                    Tail(rest))

(* min(best_asks, key=best_asks.get): the first of several equal minima *)
RECURSIVE MinByPrice(_, _)
MinByPrice(best, rest) ==
    IF rest = <<>> THEN best
    ELSE MinByPrice(IF Head(rest).price < best.price THEN Head(rest) ELSE best,
                    Tail(rest))

Opportunity(pair, buy, sell, discrepancy, percentage) ==
    [pair |-> pair,
     buy_exchange |-> buy.exchange, buy_price |-> buy.price,
     sell_exchange |-> sell.exchange, sell_price |-> sell.price,
     discrepancy |-> discrepancy, discrepancy_percentage |-> percentage,
     tradable_volume |-> IF sell.volume < buy.volume THEN sell.volume ELSE buy.volume]

(* lines 128-187: the body of the loop for one pair.  min_ask_price is     *)
(* float('inf') exactly when min_ask_exchange is None, so the test         *)
(* min_ask_price < float('inf') adds nothing to the test of the exchange.  *)
ExaminePair(books, pair, threshold) ==
    LET best_bids == BestLevels(books, pair, "bids")
        best_asks == BestLevels(books, pair, "asks")
        max_bid == IF best_bids # <<>> THEN MaxByPrice(Head(best_bids), Tail(best_bids))
                   ELSE [exchange |-> NO_EXCHANGE, price |-> 0, volume |-> 0]
        min_ask == IF best_asks # <<>> THEN MinByPrice(Head(best_asks), Tail(best_asks))
                   ELSE [exchange |-> NO_EXCHANGE, price |-> 0, volume |-> 0]
        picked == [pair |-> pair, max_bid_exchange |-> max_bid.exchange,
                   min_ask_exchange |-> min_ask.exchange]
        quiet == [picked |-> picked, printed |-> <<>>, raised |-> None]
    IN  IF /\ max_bid.exchange # NO_EXCHANGE
           /\ min_ask.exchange # NO_EXCHANGE
           /\ max_bid.price > 0
           /\ max_bid.exchange # min_ask.exchange
        THEN IF min_ask.price = 0
             THEN [quiet EXCEPT !.raised = Some(ZERO_DIVISION_ERROR)]
             ELSE LET discrepancy == FSub(R(max_bid.price), R(min_ask.price))
                      discrepancy_percentage ==
                          FMul(FDiv(discrepancy, R(min_ask.price)), R(100))
                  IN  IF RGe(discrepancy_percentage, threshold)
                      THEN [quiet EXCEPT !.printed =
                                <<Opportunity(pair, min_ask, max_bid, discrepancy,
                                              discrepancy_percentage)>>]
                      ELSE quiet
        ELSE quiet

(* the for loop of line 126 over `pairs`, left at the first exception *)
RECURSIVE ExaminePairs(_, _, _, _)
ExaminePairs(books, pairs, threshold, done) ==
    IF pairs = <<>> THEN done
    ELSE LET r == ExaminePair(books, Head(pairs), threshold)
             now == [selection |-> Append(done.selection, r.picked),
                     opportunities |-> done.opportunities \o r.printed,
                     raised |-> r.raised]
         IN  IF r.raised # None THEN now
             ELSE ExaminePairs(books, Tail(pairs), threshold, now)

(* the keys of one exchange's map, in the order the pairs were fetched *)
PairsOf(pairs) ==
    LET Fetched(pair) == HasPair(pairs, pair) IN SelectSeq(TradingPairs, Fetched)

(* detect_discrepancies(orderbooks, threshold_percentage) *)
DetectDiscrepanciesResult(books, threshold) ==
    LET nothing == [selection |-> <<>>, opportunities |-> <<>>, raised |-> None]
    IN  IF books = <<>> THEN nothing
        ELSE IF books[1].pairs = <<>> THEN nothing
        ELSE ExaminePairs(books, PairsOf(books[1].pairs), threshold, nothing)

(* lines 80-89 of main: a snapshot has been fetched; the configured        *)
(* threshold is any of Thresholds                                          *)
MonitorInit ==
    /\ StrategyIdle
    /\ IdleCall
    /\ clock = 0
    /\ last_emit_time = None
    /\ BacktestOff
    /\ UtilitiesOff
    /\ orderbooks \in Snapshots
    /\ threshold_percentage \in Thresholds
    /\ mon_pc = "fetched"
    /\ selection = <<>>
    /\ opportunities = <<>>
    /\ raised = None

(* line 92 of main: detect_discrepancies runs on the snapshot *)
DetectDiscrepancies ==
    /\ mon_pc = "fetched"
    /\ LET r == DetectDiscrepanciesResult(orderbooks, threshold_percentage)
       IN  /\ selection' = r.selection
           /\ opportunities' = r.opportunities
           /\ raised' = r.raised
    /\ mon_pc' = "detected"
    /\ UNCHANGED <<orderbooks, threshold_percentage, strategyVars, callVars,
                   backtestVars, utilityVars>>

MonitorNext == DetectDiscrepancies

SpecMonitor == MonitorInit /\ [][MonitorNext]_vars

----------------------------------------------------------------------------
(* Claims about Backtester.run_backtest, checked under SpecBacktest        *)

(* the highest equity among the first k points of the curve *)
RunningPeak(curve, k) == RMaxOf(SubSeq(curve, 1, k))

(* the drawdown measured against the peak reached so far *)
RunningPeakDrawdown(curve) ==
    IF curve = <<>> THEN RZero
    ELSE RMinOf([k \in 1..Len(curve) |->
                    FDiv(FSub(curve[k], RunningPeak(curve, k)), RunningPeak(curve, k))])

NonDecreasing(curve) ==
    \A k \in 1..(Len(curve) - 1) : RLe(curve[k], curve[k + 1])

(* C9: the max_drawdown reported by run_backtest is the minimum over all   *)
(* bars of (equity[i] - P[i]) / P[i], P[i] being the maximum of            *)
(* equity[0..i], the peak reached so far; the value is non-positive.       *)
C9_MaxDrawdownUsesRunningPeak ==
    bt_pc = "done" =>
        /\ results.max_drawdown = RunningPeakDrawdown(equity_curve)
        /\ RLe(results.max_drawdown, RZero)

(* C10: a backtest whose equity curve never decreases reports             *)
(* max_drawdown = 0.                                                       *)
C10_MonotoneCurveHasZeroDrawdown ==
    (bt_pc = "done" /\ NonDecreasing(equity_curve)) =>
        results.max_drawdown = RZero

(* one pass of the loop body: bar i is replayed with the strategy's answer *)
BarReplayed == bt_pc = "loop" /\ i' = i + 1

LastTrade == trades[Len(trades)]

(* C11: on Buy with no units held, amount = capital / price,               *)
(* fee = amount * price * commission, position = amount, capital = 0, and  *)
(* exactly one trade {BUY, price, amount, fee} stamped with the bar is     *)
(* appended.                                                               *)
C11_BuyStep ==
    [][(BarReplayed /\ signal' = BUY /\ held = RZero) =>
            LET price == data[i + 1]
                amount == FDiv(capital, price)
                fee == FMul(FMul(amount, price), commission)
            IN  /\ held' = amount
                /\ capital' = RZero
                /\ trades' = Append(trades, Trade(i, "BUY", price, amount, fee))]_vars

C11_Witness_BoughtWithCommission ==
    /\ bt_pc = "loop" /\ i >= 1
    /\ signal = BUY
    /\ commission # RZero
    /\ Len(trades) = 1
    /\ LastTrade.action = "BUY" /\ LastTrade.timestamp = i - 1
    /\ held = LastTrade.amount /\ RGt(held, RZero)
    /\ capital = RZero

(* C12: on Sell with units held, fee = position * price * commission,      *)
(* capital = position * price - fee, position = 0, and exactly one trade   *)
(* {SELL, price, amount, fee} for the whole held position is appended.     *)
C12_SellStep ==
    [][(BarReplayed /\ signal' = SELL /\ RGt(held, RZero)) =>
            LET price == data[i + 1]
                fee == FMul(FMul(held, price), commission)
            IN  /\ capital' = FSub(FMul(held, price), fee)
                /\ held' = RZero
                /\ trades' = Append(trades, Trade(i, "SELL", price, held, fee))]_vars

C12_Witness_SoldWithCommission ==
    /\ bt_pc = "loop" /\ i >= 2
    /\ signal = SELL
    /\ commission # RZero
    /\ Len(trades) = 2
    /\ LastTrade.action = "SELL" /\ LastTrade.timestamp = i - 1
    /\ LastTrade.amount = trades[1].amount
    /\ held = RZero
    /\ RGt(capital, RZero)

(* C13: on Hold, on Buy while units are held and on Sell while none are,   *)
(* capital, position and the ledger are unchanged and one equity point     *)
(* capital + position * close is appended; the equity curve always has one *)
(* entry per replayed bar.                                                 *)
C13_NonMatchingSignalIsNoOp ==
    [][/\ (/\ BarReplayed
           /\ \/ signal' = HOLD
              \/ signal' = BUY /\ held # RZero
              \/ signal' = SELL /\ ~RGt(held, RZero)) =>
                /\ capital' = capital
                /\ held' = held
                /\ trades' = trades
                /\ equity_curve' = Append(equity_curve,
                                          FAdd(capital, FMul(held, data[i + 1])))
       /\ Len(equity_curve') = i']_vars

C13_Witness_BuyWhileHolding ==
    /\ bt_pc = "loop" /\ i >= 2
    /\ signal = BUY
    /\ Len(trades) = 1
    /\ LastTrade.action = "BUY" /\ LastTrade.timestamp < i - 1
    /\ held = LastTrade.amount
    /\ Len(equity_curve) = i

(* the strategy answered Buy on bar k, Sell on bar k + 1 at the same close *)
(* and Hold on every other bar                                             *)
RoundTripAt(k) ==
    /\ answers[k] = BUY
    /\ answers[k + 1] = SELL
    /\ data[k] = data[k + 1]
    /\ \A j \in 1..Len(answers) : j \notin {k, k + 1} => answers[j] = HOLD

RoundTripRun ==
    /\ bt_pc = "done"
    /\ commission = RZero
    /\ \E k \in 1..(Len(answers) - 1) : RoundTripAt(k)

(* C14: with commission 0, a run of one Buy and a Sell on the next bar at  *)
(* the same close ends with capital and final equity equal to the initial  *)
(* capital.                                                                *)
C14_RoundTripConservesCapital ==
    RoundTripRun =>
        /\ capital = initial_capital
        /\ results.final_equity = initial_capital

(* C27: with a positive initial capital, positive closes and a commission *)
(* in [0, 1), whatever the signals, the ledger alternates BUY, SELL, BUY,  *)
(* ... starting with BUY, every SELL sells the amount the BUY before it    *)
(* bought, and after every bar capital and position are not both non-zero  *)
(* (units held imply no capital) and neither is negative.                  *)
C27_LedgerAlternatesAndExcludes ==
    bt_pc # "off" =>
        /\ \A k \in 1..Len(trades) :
               /\ trades[k].action = (IF k % 2 = 1 THEN "BUY" ELSE "SELL")
               /\ k % 2 = 0 => trades[k].amount = trades[k - 1].amount
        /\ ~(capital # RZero /\ held # RZero)
        /\ RGt(held, RZero) => capital = RZero
        /\ RGe(capital, RZero)
        /\ RGe(held, RZero)

C27_Witness_BoughtAgainAfterSelling ==
    /\ RGt(initial_capital, RZero)
    /\ RGt(commission, RZero)
    /\ Len(trades) = 3
    /\ trades[2].action = "SELL"
    /\ trades[3].action = "BUY"
    /\ RGt(held, RZero)
    /\ capital = RZero

(* C15: at step i the strategy is handed exactly the bars 0..i, and every  *)
(* trade is priced at the close of the bar it is stamped with.             *)
C15_NoLookAhead ==
    (bt_pc # "off" /\ i > 0) =>
        /\ current_data = SubSeq(data, 1, i)
        /\ \A k \in 1..Len(trades) : trades[k].price = data[trades[k].timestamp + 1]

C15_Witness_MidRunSlice ==
    /\ bt_pc = "loop"
    /\ i > 0 /\ i < Len(data)
    /\ current_data = SubSeq(data, 1, i)
    /\ trades # <<>>
    /\ LastTrade.timestamp = i - 1

(* C16: a second run with the same strategy, series, capital and           *)
(* commission starts from initial_capital with no units held and yields    *)
(* the ledger and the equity curve of the first run.                       *)
C16_SecondRunRepeatsFirst ==
    /\ (run = 2 /\ bt_pc = "loop" /\ i = 0) =>
            (capital = initial_capital /\ held = RZero /\ trades = <<>>)
    /\ (run = 2 /\ bt_pc = "done") =>
            (trades = first.trades /\ equity_curve = first.equity_curve)

C16_Witness_SecondRunAfterOpenPosition ==
    /\ run = 2 /\ bt_pc = "done"
    /\ RGt(held, RZero)
    /\ trades # <<>>
    /\ trades = first.trades
    /\ equity_curve = first.equity_curve

----------------------------------------------------------------------------
(* Claims about detect_discrepancies, checked under SpecMonitor.  A state  *)
(* with mon_pc = "detected" shows one call: its arguments (orderbooks,     *)
(* threshold_percentage), what it printed and how it was left.             *)

Detected == mon_pc = "detected"
ThePair == TradingPairs[1]

(* the exchanges (by position in the snapshot) quoting a side of the pair *)
Quoting(side) ==
    {k \in 1..Len(orderbooks) :
        /\ HasPair(orderbooks[k].pairs, ThePair)
        /\ ~BookOf(orderbooks[k].pairs, ThePair).is_none
        /\ BookOf(orderbooks[k].pairs, ThePair)[side] # <<>>}
Quote(k, side) == BookOf(orderbooks[k].pairs, ThePair)[side][1][1]

(* the first exchange, in iteration order, with the lowest ask / highest bid *)
BuyAt ==
    CHOOSE k \in Quoting("asks") :
        \A j \in Quoting("asks") :
            /\ Quote(j, "asks") >= Quote(k, "asks")
            /\ j < k => Quote(j, "asks") > Quote(k, "asks")
SellAt ==
    CHOOSE k \in Quoting("bids") :
        \A j \in Quoting("bids") :
            /\ Quote(j, "bids") <= Quote(k, "bids")
            /\ j < k => Quote(j, "bids") < Quote(k, "bids")
BuyPrice == Quote(BuyAt, "asks")
SellPrice == Quote(SellAt, "bids")
BothSidesHaveCandidates == Quoting("asks") # {} /\ Quoting("bids") # {}

EdgePercent == FMul(FDiv(FSub(R(SellPrice), R(BuyPrice)), R(BuyPrice)), R(100))

Reported(buy, sell) ==
    /\ Len(opportunities) = 1
    /\ opportunities[1].pair = ThePair
    /\ opportunities[1].buy_exchange = orderbooks[buy].name
    /\ opportunities[1].sell_exchange = orderbooks[sell].name

(* C17: an opportunity is reported only with sell_price > buy_price and    *)
(* a buy exchange different from the sell exchange, for every snapshot and *)
(* every threshold, 0 and negative ones included.                          *)
C17_OpportunitiesAreProfitable ==
    \A k \in 1..Len(opportunities) :
        /\ opportunities[k].sell_price > opportunities[k].buy_price
        /\ opportunities[k].buy_exchange # opportunities[k].sell_exchange

(* C18: with edge_percent = (sell_price - buy_price) / buy_price * 100,    *)
(* nothing is reported when edge_percent < threshold_percentage, and the   *)
(* opportunity (buy on the min-ask exchange, sell on the max-bid exchange) *)
(* is reported when edge_percent >= threshold_percentage, the exchanges    *)
(* differ and both sides have candidates.                                  *)
C18_ReportedIffEdgeReachesThreshold ==
    (Detected /\ BothSidesHaveCandidates /\ BuyPrice # 0) =>
        IF RLt(EdgePercent, threshold_percentage)
        THEN opportunities = <<>>
        ELSE BuyAt # SellAt => Reported(BuyAt, SellAt)

(* C19: when the minimum best ask is 0 and some other exchange has a       *)
(* positive best bid, detect_discrepancies returns normally and reports    *)
(* nothing.                                                                *)
C19_ZeroBuyPriceNeverDivides ==
    (/\ Detected
     /\ Quoting("asks") # {}
     /\ BuyPrice = 0
     /\ \E k \in Quoting("bids") : k # BuyAt /\ Quote(k, "bids") > 0) =>
        (raised = None /\ opportunities = <<>>)

(* C20: the buy exchange picked has the minimum first-level ask among the  *)
(* exchanges with a non-empty ask side, the sell exchange the maximum      *)
(* first-level bid among those with a non-empty bid side; an exchange with *)
(* an empty side is no candidate on that side; among equal extremes the    *)
(* first exchange in the snapshot's iteration order is picked.             *)
C20_ExtremeExchangesFirstOnTies ==
    (Detected /\ selection # <<>>) =>
        /\ selection[1].min_ask_exchange =
                IF Quoting("asks") # {} THEN orderbooks[BuyAt].name ELSE NO_EXCHANGE
        /\ selection[1].max_bid_exchange =
                IF Quoting("bids") # {} THEN orderbooks[SellAt].name ELSE NO_EXCHANGE

C20_Witness_TiedBidsFirstPicked ==
    /\ Detected /\ selection # <<>>
    /\ Quoting("bids") = {2, 3}
    /\ Quote(2, "bids") = Quote(3, "bids")
    /\ selection[1].max_bid_exchange = orderbooks[2].name
    /\ Quoting("asks") = {1, 2, 3}
    /\ Quote(1, "asks") > Quote(2, "asks")
    /\ Quote(2, "asks") = Quote(3, "asks")
    /\ selection[1].min_ask_exchange = orderbooks[2].name

(* C21: when the fetch of one exchange failed for a pair, whichever        *)
(* exchange it is (the first included), detection for the pair still runs  *)
(* over the exchanges that did answer.                                     *)
C21_DetectionSurvivesFailedFetch ==
    (Detected /\ \E k \in 1..Len(orderbooks) : HasPair(orderbooks[k].pairs, ThePair)) =>
        /\ Len(selection) = 1
        /\ selection[1].pair = ThePair
        /\ (/\ raised = None
            /\ BothSidesHaveCandidates
            /\ BuyAt # SellAt
            /\ SellPrice > 0
            /\ BuyPrice # 0
            /\ RGe(EdgePercent, threshold_percentage)) => Reported(BuyAt, SellAt)

----------------------------------------------------------------------------
(* Claims about ScalpingStrategy, checked under Spec.  A state with        *)
(* pc = "returned" shows one generate_signal call: its arguments           *)
(* (order_book, current_time), the position state it found (before), the  *)
(* signal it answered and the position state it left.                      *)

Returned == pc = "returned"
Gated == InCooldown(last_signal_time, current_time)
Unchanged == Current = before
IsFlatAndCleared ==
    /\ current_position = FLAT
    /\ entry_price = RZero
    /\ take_profit_price = RZero
    /\ stop_loss_price = RZero

HasBothLists(ob) == ~ob.is_none /\ "bids" \in ob.keys /\ "asks" \in ob.keys
BothSidesQuoted(ob) == HasBothLists(ob) /\ ob.bids # <<>> /\ ob.asks # <<>>
BestBid(ob) == ob.bids[1][1]
BestAsk(ob) == ob.asks[1][1]
Mark(ob) == Rat(BestBid(ob) + BestAsk(ob), 2)

ValidConfig ==
    /\ RGt(profit_target, RZero)
    /\ RGt(stop_loss, RZero) /\ RLt(stop_loss, ROne)
    /\ order_book_depth > 0

(* C1: once a call at time t has answered Buy or Sell, every later call    *)
(* whose timestamp is less than cooldown_period after t answers Hold.      *)
C1_CooldownAfterEmittedSignal ==
    (/\ Returned
     /\ last_emit_time # None
     /\ current_time # None
     /\ TheValue(current_time) - TheValue(last_emit_time) < CooldownPeriod)
        => signal = HOLD

(* The exits of an open position: with the mark price usable, a Long exits *)
(* with Sell iff mark >= take profit or mark <= stop loss, a Short exits   *)
(* with Buy iff mark <= take profit or mark >= stop loss; every other call *)
(* answers Hold and leaves the position state as it was.                   *)
ExitDue(ob) ==
    \/ /\ before.current_position = LONG
       /\ \/ RGe(Mark(ob), before.take_profit_price)
          \/ RLe(Mark(ob), before.stop_loss_price)
    \/ /\ before.current_position = SHORT
       /\ \/ RLe(Mark(ob), before.take_profit_price)
          \/ RGe(Mark(ob), before.stop_loss_price)

ManagesPosition(usable) ==
    (Returned /\ before.current_position # FLAT /\ ~Gated) =>
        IF usable /\ ExitDue(order_book)
        THEN /\ signal = (IF before.current_position = LONG THEN SELL ELSE BUY)
             /\ current_position = FLAT
        ELSE signal = HOLD /\ Unchanged

(* C2 as stated: the mark is (best_bid + best_ask) / 2 whenever both sides *)
(* have a level.                                                           *)
C2_ExitIffMarkCrossesThreshold == ManagesPosition(BothSidesQuoted(order_book))

(* C2 as amended: the mark is used only when both best prices are non-zero *)
(* and the mark is positive; otherwise the call answers Hold.              *)
C2_ExitIffUsableMarkCrossesThreshold ==
    ManagesPosition(/\ BothSidesQuoted(order_book)
                    /\ BestBid(order_book) # 0
                    /\ BestAsk(order_book) # 0
                    /\ RGt(Mark(order_book), RZero))

C2_Witness_LongExitsAtTakeProfit ==
    /\ Returned /\ ~Gated
    /\ before.current_position = LONG
    /\ BothSidesQuoted(order_book)
    /\ Mark(order_book) = before.take_profit_price
    /\ signal = SELL
    /\ current_position = FLAT

(* C3: when Flat and not gated, Buy and Long iff both ladders have at      *)
(* least `depth` levels, (best_ask - best_bid) / best_bid >= min_spread    *)
(* and bid volume > 1.5 * ask volume over the first `depth` levels; Sell   *)
(* and Short iff the first two hold and ask volume > 1.5 * bid volume;     *)
(* otherwise Hold and still Flat.  A Long is opened at                     *)
(* entry = best_ask - 0.1 * spread with take profit entry * (1 + target)   *)
(* and stop loss entry * (1 - stop_loss).                                  *)
DeepEnough(ob) ==
    /\ BothSidesQuoted(ob)
    /\ Len(ob.bids) >= order_book_depth
    /\ Len(ob.asks) >= order_book_depth
WideEnough(ob) ==
    /\ BestBid(ob) # 0
    /\ RGe(Rat(BestAsk(ob) - BestBid(ob), BestBid(ob)), min_spread)
BidVolume(ob) == SumVolume(ob.bids, order_book_depth)
AskVolume(ob) == SumVolume(ob.asks, order_book_depth)
BuyPressure(ob) == 2 * BidVolume(ob) > 3 * AskVolume(ob)
SellPressure(ob) == 2 * AskVolume(ob) > 3 * BidVolume(ob)
LongEntry(ob) ==
    RSub(R(BestAsk(ob)), RDiv(R(BestAsk(ob) - BestBid(ob)), R(10)))
ShortEntry(ob) ==
    RAdd(R(BestBid(ob)), RDiv(R(BestAsk(ob) - BestBid(ob)), R(10)))

C3_FlatEntryDecision ==
    (Returned /\ before.current_position = FLAT /\ ~Gated) =>
        LET ob == order_book
            tradable == DeepEnough(ob) /\ WideEnough(ob)
        IN  /\ (signal = BUY /\ current_position = LONG)
                    <=> (tradable /\ BuyPressure(ob))
            /\ (signal = SELL /\ current_position = SHORT)
                    <=> (tradable /\ SellPressure(ob))
            /\ ~(tradable /\ (BuyPressure(ob) \/ SellPressure(ob)))
                    => (signal = HOLD /\ current_position = FLAT)
            /\ current_position = LONG =>
                    /\ entry_price = LongEntry(ob)
                    /\ take_profit_price = RMul(entry_price, RAdd(ROne, profit_target))
                    /\ stop_loss_price = RMul(entry_price, RSub(ROne, stop_loss))

(* C4: the position changes only Flat->Long, Flat->Short, Long->Flat or    *)
(* Short->Flat, and a call that finds a position open and leaves one open  *)
(* leaves its side, entry, take profit and stop loss as they were.         *)
C4_OnlyLegalTransitions ==
    Returned =>
        /\ before.current_position # current_position =>
                (before.current_position = FLAT \/ current_position = FLAT)
        /\ (before.current_position # FLAT /\ current_position # FLAT) => Unchanged

C4_Witness_OpenPositionSurvivesEntrySignal ==
    /\ Returned /\ ~Gated
    /\ before.current_position = LONG
    /\ current_position = LONG
    /\ DeepEnough(order_book) /\ BestBid(order_book) > 0 /\ BestAsk(order_book) > 0
    /\ WideEnough(order_book) /\ SellPressure(order_book)

(* C5: with profit_target > 0 and stop_loss in (0, 1), a Long always has   *)
(* take_profit_price > entry_price > stop_loss_price and a Short always    *)
(* has take_profit_price < entry_price < stop_loss_price.                  *)
C5_ThresholdsStraddleEntry ==
    (RGt(profit_target, RZero) /\ RGt(stop_loss, RZero) /\ RLt(stop_loss, ROne)) =>
        /\ current_position = LONG =>
                /\ RGt(take_profit_price, entry_price)
                /\ RGt(entry_price, stop_loss_price)
        /\ current_position = SHORT =>
                /\ RLt(take_profit_price, entry_price)
                /\ RLt(entry_price, stop_loss_price)

(* C6: right after a call that closes a position (take profit or stop loss *)
(* hit) the strategy is Flat and entry, take profit and stop loss are 0.   *)
C6_CloseClearsPosition ==
    (Returned /\ before.current_position # FLAT /\ signal \in {BUY, SELL}) =>
        IsFlatAndCleared

C6_Witness_StopLossClosedShort ==
    /\ Returned
    /\ before.current_position = SHORT
    /\ BothSidesQuoted(order_book)
    /\ RGe(Mark(order_book), before.stop_loss_price)
    /\ signal = BUY
    /\ IsFlatAndCleared

(* C7: an order book that is None, lacks 'bids' or 'asks', has an empty    *)
(* side or a non-positive best bid or ask always gets Hold, without an     *)
(* exception and without a change of the position state.                   *)
Degenerate(ob) ==
    \/ ~HasBothLists(ob)
    \/ ob.bids = <<>>
    \/ ob.asks = <<>>
    \/ BestBid(ob) <= 0
    \/ BestAsk(ob) <= 0

C7_DegenerateBookHolds ==
    (Returned /\ Degenerate(order_book)) => (signal = HOLD /\ Unchanged)

(* C8: no strategy constructed with an invalid parameter (stop_loss <= 0,  *)
(* profit_target <= 0, order_book_depth <= 0) ever runs generate_signal.   *)
C8_InvalidConfigNeverSignals ==
    pc # "idle" => ValidConfig

----------------------------------------------------------------------------
(* calculate_weighted_price(orders, target_volume): the volume-weighted    *)
(* price of filling target_volume from a ladder.  The tests import it from *)
(* main, which does not define it; the walk below is the one the design    *)
(* document gives for the WeightedFillCalculator.                          *)

MaxFillLevels == 3
FillLevels == {<<100, 1>>, <<101, 1>>, <<102, 1>>, <<101, 2>>}
FillLadders == SeqsUpTo(FillLevels, MaxFillLevels)
TargetVolumes == {R(-1), RZero, R(1), <<3, 2>>, R(2), R(3), R(4)}

(* the walk over the levels: what is left to fill and the cost so far *)
RECURSIVE WalkLevels(_, _, _)
WalkLevels(levels, remaining, cost) ==
    IF levels = <<>> \/ RLe(remaining, RZero)
    THEN [remaining |-> remaining, cost |-> cost]
    ELSE LET price == R(Head(levels)[1])
             volume == R(Head(levels)[2])
             filled == RMin(remaining, volume)
         IN  WalkLevels(Tail(levels), RSub(remaining, filled),
                        RAdd(cost, RMul(filled, price)))

CalculateWeightedPricePartialFill(levels, target) == IF levels = <<>> \/ RLe(target, RZero) THEN None ELSE Some(RDiv(WalkLevels(levels, target, RZero).cost, target))

CalculateWeightedPrice(levels, target) ==
    IF levels = <<>> \/ RLe(target, RZero)
    THEN None
    ELSE LET walked == WalkLevels(levels, target, RZero)
         IN  IF RGt(walked.remaining, RZero)
             THEN None
             ELSE Some(RDiv(walked.cost, target))

FillInit ==
    /\ StrategyIdle
    /\ IdleCall
    /\ clock = 0
    /\ last_emit_time = None
    /\ BacktestOff
    /\ MonitorOff
    /\ KeysOff
    /\ RetryOff
    /\ BotOff
    /\ MainOff
    /\ OiOff
    /\ NewsOff
    /\ orders \in FillLadders
    /\ target_volume \in TargetVolumes
    /\ fill_pc = "called"
    /\ weighted_price = None

CallCalculateWeightedPrice ==
    /\ fill_pc = "called"
    /\ weighted_price' = CalculateWeightedPrice(orders, target_volume)
    /\ fill_pc' = "returned"
    /\ UNCHANGED <<orders, target_volume, strategyVars, callVars, backtestVars,
                   monitorVars, keyVars, retryVars, botVars, mainVars, oiVars, newsVars>>

FillNext == CallCalculateWeightedPrice

SpecWeightedFill == FillInit /\ [][FillNext]_vars

(* the volume of the first k levels of the ladder *)
RECURSIVE VolumeOfFirst(_, _)
VolumeOfFirst(levels, k) ==
    IF k = 0 THEN RZero
    ELSE RAdd(VolumeOfFirst(levels, k - 1), R(levels[k][2]))

(* what an in-order fill of `target` takes from level k *)
TakenFrom(levels, target, k) ==
    LET left == RSub(target, VolumeOfFirst(levels, k - 1))
    IN  IF RLe(left, RZero) THEN RZero ELSE RMin(left, R(levels[k][2]))

RECURSIVE CostOfFirst(_, _, _)
CostOfFirst(levels, target, k) ==
    IF k = 0 THEN RZero
    ELSE RAdd(CostOfFirst(levels, target, k - 1),
              RMul(TakenFrom(levels, target, k), R(levels[k][1])))

ExampleLadder == <<(<<100, 1>>), (<<101, 1>>), (<<102, 1>>)>>

FillReturned == fill_pc = "returned"

NoFillPrice ==
    \/ orders = <<>>
    \/ RLe(target_volume, RZero)
    \/ RLt(VolumeOfFirst(orders, Len(orders)), target_volume)

(* C22: calculate_weighted_price returns None when the ladder is empty,    *)
(* the target volume is not positive or the ladder holds less than the     *)
(* target (never a partial-fill price); otherwise it returns the sum over  *)
(* the levels in order of min(remaining, volume) * price, divided by the   *)
(* target: 100.5 for 2 units and 101 for 3 units of the example ladder.    *)
C22_WeightedFill ==
    FillReturned =>
        /\ NoFillPrice => weighted_price = None
        /\ ~NoFillPrice =>
               weighted_price =
                   Some(RDiv(CostOfFirst(orders, target_volume, Len(orders)),
                             target_volume))
        /\ (orders = ExampleLadder /\ target_volume = R(2)) =>
               weighted_price = Some(<<201, 2>>)
        /\ (orders = ExampleLadder /\ target_volume = R(3)) =>
               weighted_price = Some(R(101))

C22_Witness_PartialLastLevel ==
    /\ FillReturned
    /\ orders = ExampleLadder
    /\ target_volume = <<3, 2>>
    /\ weighted_price = Some(<<301, 3>>)

----------------------------------------------------------------------------
(* AlphaVantageKeyManager: a list of API keys and the index of the one in  *)
(* use.  key_last_used holds wall-clock readings that only get_key_stats   *)
(* reports; it is left out.                                                *)

MaxKeys == 3
MaxCalls == 4
RawKeys == {"", " KEY1 ", "KEY2"}

(* str.strip() on the raw keys *)
Strip(key) == IF key = " KEY1 " THEN "KEY1" ELSE key

Truthy(str) == str # ""

(* [key.strip() for key in api_keys if key.strip()] *)
RECURSIVE StrippedKeys(_)
StrippedKeys(raw) ==
    IF raw = <<>> THEN <<>>
    ELSE IF Truthy(Strip(Head(raw)))
         THEN <<Strip(Head(raw))>> \o StrippedKeys(Tail(raw))
         ELSE StrippedKeys(Tail(raw))

KeysOf(keys) == {keys[k] : k \in 1..Len(keys)}

(* Python indexes from 0 *)
KeyAt(index) == api_keys[index + 1]

NextIndexStayingPut(index, n) == index

NextIndex(index, n) == (index + 1) % n

(* AlphaVantageKeyManager.__init__ returns without ValueError *)
NewKeyManager(raw) ==
    /\ StrippedKeys(raw) # <<>>
    /\ api_keys = StrippedKeys(raw)
    /\ current_key_index = 0
    /\ key_usage_count = [key \in KeysOf(StrippedKeys(raw)) |-> 0]
    /\ key_pc = "ready"

KeysInit ==
    /\ StrategyIdle
    /\ IdleCall
    /\ clock = 0
    /\ last_emit_time = None
    /\ BacktestOff
    /\ MonitorOff
    /\ FillOff
    /\ RetryOff
    /\ BotOff
    /\ MainOff
    /\ OiOff
    /\ NewsOff
    /\ \E raw \in SeqsUpTo(RawKeys, MaxKeys) : NewKeyManager(raw)
    /\ key_calls = <<>>
    /\ key_returned = None

KeyCall(name) ==
    /\ key_pc = "ready"
    /\ Len(key_calls) < MaxCalls
    /\ key_calls' = Append(key_calls, name)
    /\ UNCHANGED <<api_keys, key_pc, strategyVars, callVars, backtestVars,
                   monitorVars, fillVars, retryVars, botVars, mainVars, oiVars, newsVars>>

GetCurrentKey ==
    /\ KeyCall("get_current_key")
    /\ key_returned' = Some(KeyAt(current_key_index))
    /\ UNCHANGED <<current_key_index, key_usage_count>>

RotateKey ==
    /\ KeyCall("rotate_key")
    /\ current_key_index' = NextIndex(current_key_index, Len(api_keys))
    /\ key_returned' = Some(KeyAt(current_key_index'))
    /\ UNCHANGED key_usage_count

GetNextKey ==
    /\ KeyCall("get_next_key")
    /\ key_returned' = Some(KeyAt(NextIndex(current_key_index, Len(api_keys))))
    /\ UNCHANGED <<current_key_index, key_usage_count>>

(* helpers.py only ever marks the key get_current_key gave it *)
MarkKeyUsage ==
    /\ KeyCall("mark_key_usage")
    /\ key_usage_count' =
           [key_usage_count EXCEPT ![KeyAt(current_key_index)] = @ + 1]
    /\ key_returned' = None
    /\ UNCHANGED current_key_index

KeysNext == GetCurrentKey \/ RotateKey \/ GetNextKey \/ MarkKeyUsage

SpecKeys == KeysInit /\ [][KeysNext]_vars

RECURSIVE CountOf(_, _)
CountOf(name, calls) ==
    IF calls = <<>> THEN 0
    ELSE CountOf(name, Tail(calls)) + (IF Head(calls) = name THEN 1 ELSE 0)

Rotations == CountOf("rotate_key", key_calls)

LastKeyCall == key_calls[Len(key_calls)]

(* C23: with n >= 1 keys every rotate_key moves to the next key in list    *)
(* order, wrapping from the last to the first: current_key_index stays in  *)
(* [0, n), the key in use after r rotations is the key r places along      *)
(* the list modulo n (so n rotations in a row come back to the same key,   *)
(* and the calls of get_current_key and get_next_key in between count for  *)
(* nothing), and rotate_key returns the key it moved to.                   *)
C23_CircularKeyRotation ==
    key_pc = "ready" =>
        /\ Len(api_keys) >= 1
        /\ current_key_index \in 0..(Len(api_keys) - 1)
        /\ current_key_index = Rotations % Len(api_keys)
        /\ (key_calls # <<>> /\ LastKeyCall = "rotate_key") =>
               key_returned = Some(KeyAt(current_key_index))
        /\ (key_calls # <<>> /\ LastKeyCall = "get_current_key") =>
               key_returned = Some(KeyAt(current_key_index))
        /\ (key_calls # <<>> /\ LastKeyCall = "get_next_key") =>
               key_returned = Some(KeyAt((current_key_index + 1) % Len(api_keys)))

C23_Witness_WrappedAround ==
    /\ key_pc = "ready"
    /\ Len(api_keys) = 2
    /\ key_calls = <<"rotate_key", "get_next_key", "get_current_key", "rotate_key">>
    /\ current_key_index = 0
    /\ key_returned = Some("KEY1")

----------------------------------------------------------------------------
(* call_alpha_vantage_api_with_retry(function, max_retries, **params): up  *)
(* to max_retries requests, rotating the key after a failed one.  A JSON   *)
(* object is the set of its <<name, value>> members.                       *)

MaxRetries == 3
RetryLimits == 0..MaxRetries

INVALID_CALL == "Invalid API call. Please retry or visit the documentation."
FREQUENCY_NOTE == "Our standard API call frequency is 5 calls per minute."
DAILY_LIMIT == "You have reached the 25 requests/day Limit."
Messages == {INVALID_CALL, FREQUENCY_NOTE, DAILY_LIMIT}

(* the messages whose lower-cased text holds "rate limit", "api call      *)
(* frequency", "exceeded" or "limit"                                       *)
LimitMessages == {FREQUENCY_NOTE, DAILY_LIMIT}

HasMember(dict, name) == \E member \in dict : member[1] = name
Member(dict, name) == (CHOOSE member \in dict : member[1] = name)[2]

EmptyObject == {}
GlobalQuote == {<<"Global Quote", "AAPL 150.00">>}
RateLimitNote == {<<"Note", FREQUENCY_NOTE>>}
RateLimitInformation == {<<"Information", DAILY_LIMIT>>}
InvalidCallError == {<<"Error Message", INVALID_CALL>>}
InvalidCallWithNote == {<<"Error Message", INVALID_CALL>>, <<"Note", FREQUENCY_NOTE>>}
JsonBodies == {EmptyObject, GlobalQuote, RateLimitNote, RateLimitInformation,
               InvalidCallError, InvalidCallWithNote}

(* what requests.get(...) and response.json() can do on one attempt *)
Outcomes ==
    {[kind |-> "timeout"], [kind |-> "exception"],
     [kind |-> "status", status_code |-> 503],
     [kind |-> "invalid_json", status_code |-> 200]}
    \cup {[kind |-> "json", status_code |-> 200, data |-> body] : body \in JsonBodies}

IsRateLimitedResponse(response_data) ==
    IF response_data = EmptyObject THEN FALSE
    ELSE IF HasMember(response_data, "Error Message")
         THEN Member(response_data, "Error Message") \in LimitMessages
    ELSE IF HasMember(response_data, "Information")
         THEN Member(response_data, "Information") \in LimitMessages
    ELSE IF HasMember(response_data, "Note")
         THEN Member(response_data, "Note") \in LimitMessages
    ELSE FALSE

(* one pass through the loop body: whether the key is marked and rotated, *)
(* and what is returned (or "continue")                                    *)
AttemptResult(outcome, k, limit) ==
    LET last == ~(k < limit - 1)
        retry == [marked |-> FALSE, rotated |-> ~last,
                  returns |-> last, value |-> None]
    IN  IF outcome.kind = "json"
        THEN IF IsRateLimitedResponse(outcome.data)
             THEN [marked |-> TRUE, rotated |-> ~last, returns |-> last,
                   value |-> Some(outcome.data)]
             ELSE [marked |-> TRUE, rotated |-> FALSE, returns |-> TRUE,
                   value |-> Some(outcome.data)]
        ELSE retry

RetryInit ==
    /\ StrategyIdle
    /\ IdleCall
    /\ clock = 0
    /\ last_emit_time = None
    /\ BacktestOff
    /\ MonitorOff
    /\ FillOff
    /\ BotOff
    /\ MainOff
    /\ OiOff
    /\ NewsOff
    /\ \E raw \in SeqsUpTo(RawKeys, MaxKeys) : NewKeyManager(raw)
    /\ key_calls = <<>>
    /\ key_returned = None
    /\ max_retries \in RetryLimits
    /\ attempt = 0
    /\ retry_pc = "loop"
    /\ attempts = <<>>
    /\ retry_result = None

(* lines 117-187: one iteration of `for attempt in range(max_retries)` *)
Attempt(outcome) ==
    /\ retry_pc = "loop"
    /\ attempt < max_retries
    /\ LET api_key == KeyAt(current_key_index)
           r == AttemptResult(outcome, attempt, max_retries)
       IN  /\ attempts' = Append(attempts, [api_key |-> api_key, outcome |-> outcome])
           /\ key_usage_count' =
                  IF r.marked THEN [key_usage_count EXCEPT ![api_key] = @ + 1]
                  ELSE key_usage_count
           /\ current_key_index' =
                  IF r.rotated THEN NextIndex(current_key_index, Len(api_keys))
                  ELSE current_key_index
           /\ key_calls' =
                  key_calls \o <<"get_current_key">>
                  \o (IF r.marked THEN <<"mark_key_usage">> ELSE <<>>)
                  \o (IF r.rotated THEN <<"rotate_key">> ELSE <<>>)
           /\ key_returned' =
                  IF r.rotated THEN Some(KeyAt(current_key_index'))
                  ELSE IF r.marked THEN None ELSE Some(api_key)
           /\ IF r.returns
              THEN /\ retry_result' = r.value
                   /\ retry_pc' = "returned"
                   /\ UNCHANGED attempt
              ELSE /\ attempt' = attempt + 1
                   /\ UNCHANGED <<retry_result, retry_pc>>
    /\ UNCHANGED <<api_keys, key_pc, max_retries, strategyVars, callVars,
                   backtestVars, monitorVars, fillVars, botVars, mainVars, oiVars, newsVars>>

(* line 189: range(max_retries) is exhausted *)
ReturnNoneAfterLoop ==
    /\ retry_pc = "loop"
    /\ ~(attempt < max_retries)
    /\ retry_result' = None
    /\ retry_pc' = "returned"
    /\ UNCHANGED <<max_retries, attempt, attempts, keyVars, strategyVars,
                   callVars, backtestVars, monitorVars, fillVars, botVars,
                   mainVars, oiVars, newsVars>>

RetryNext == (\E outcome \in Outcomes : Attempt(outcome)) \/ ReturnNoneAfterLoop

SpecRetry == RetryInit /\ [][RetryNext]_vars

RateLimited(outcome) ==
    outcome.kind = "json" /\ IsRateLimitedResponse(outcome.data)

Failed(outcome) == outcome.kind # "json" \/ RateLimited(outcome)

RetryReturned == retry_pc = "returned"

AllAttemptsFailed == \A k \in 1..Len(attempts) : Failed(attempts[k].outcome)

(* C24: call_alpha_vantage_api_with_retry makes at most max_retries        *)
(* attempts and returns None whenever all of them failed (a rate-limited   *)
(* response, a status other than 200, a body that is not JSON, a timeout   *)
(* or another exception); the data it returns comes from an attempt that   *)
(* was not rate-limited.                                                   *)
C24_RetryOutcome ==
    /\ Len(attempts) <= max_retries
    /\ RetryReturned =>
           /\ AllAttemptsFailed => retry_result = None
           /\ retry_result # None =>
                  \E k \in 1..Len(attempts) :
                      /\ attempts[k].outcome.kind = "json"
                      /\ ~RateLimited(attempts[k].outcome)
                      /\ retry_result = Some(attempts[k].outcome.data)

----------------------------------------------------------------------------
(* ScalpingBot: one trading cycle fetches an order book, asks the strategy *)
(* for a signal and hands the signal to _execute_trade.  The bot builds    *)
(* its strategy with the default order_book_depth.                         *)

DefaultDepth == 10
MaxPositionSize == <<1, 100>>
RiskMaxPositionSize == <<1, 10>>
BotCapitals == {RZero, R(1000)}
OrderCosts == {R(1000)}

FETCH_ERROR == "FetchError"

BotBidLadders ==
    {<<>>, Ladder(90, 1, DefaultDepth, -1), Ladder(100, 30, DefaultDepth, -1)}
BotAskLadders ==
    {<<>>} \cup {Ladder(110, v, DefaultDepth, 1) : v \in {1, 30}}
BotBooks ==
    {NoneBook, DictWithKeys({"bids"})}
        \cup {Book(b, a) : b \in BotBidLadders, a \in BotAskLadders}

(* what Trader.place_order answers: a simulated or paper order (no cost),  *)
(* an exchange order with a cost, or {'error': ...}                        *)
Replies ==
    {[error |-> FALSE, cost |-> None], [error |-> TRUE, cost |-> None]}
        \cup {[error |-> FALSE, cost |-> Some(c)] : c \in OrderCosts}

(* Signal is a plain Enum: a member never compares equal to a str *)
EnumEqualsStr(member, text) == FALSE

(* line 121: signal != "HOLD" *)
WantsTrade(sig) == ~EnumEqualsStr(sig, "HOLD")

(* line 159 *)
OrderSide(sig) == IF EnumEqualsStr(sig, "BUY") THEN "buy" ELSE "sell"

(* RiskManager.calculate_position_size without a stop loss, then the cap   *)
(* of lines 151-152                                                        *)
PositionSize(cap, price) ==
    LET position_size == RMin(RDiv(RMul(cap, RiskMaxPositionSize), price),
                              RDiv(cap, price))
        max_size == RDiv(RMul(cap, MaxPositionSize), price)
    IN  RMin(position_size, max_size)

(* _execute_trade(signal, order_book) with the trader answering `reply`:   *)
(* the orders handed to place_order, whether update_position ran, and the  *)
(* risk manager's capital afterwards                                       *)
ExecuteTradeResult(sig, book, cap, reply) ==
    LET nothing == [placed |-> <<>>, updated |-> FALSE, capital |-> cap,
                    price |-> RZero]
    IN  IF book.is_none \/ "bids" \notin book.keys \/ "asks" \notin book.keys
        THEN nothing
        ELSE LET current_price == MarkPrice(book)
             IN  IF RLe(current_price, RZero) THEN nothing
                 ELSE LET position_size == PositionSize(cap, current_price)
                          order == [side |-> OrderSide(sig),
                                    amount |-> position_size, reply |-> reply]
                      IN  IF RLe(position_size, RZero) THEN nothing
                          ELSE IF reply.error
                          THEN [placed |-> <<order>>, updated |-> FALSE,
                                capital |-> cap, price |-> current_price]
                          ELSE [placed |-> <<order>>, updated |-> TRUE,
                                capital |-> IF reply.cost # None
                                            THEN RSub(cap, TheValue(reply.cost))
                                            ELSE cap,
                                price |-> current_price]

(* ScalpingBot.__init__ *)
BotInit ==
    /\ profit_target \in ProfitTargets
    /\ stop_loss \in StopLosses
    /\ order_book_depth = DefaultDepth
    /\ min_spread \in MinSpreads
    /\ current_position = FLAT
    /\ entry_price = RZero
    /\ take_profit_price = RZero
    /\ stop_loss_price = RZero
    /\ last_signal_time = None
    /\ position = HOLD
    /\ IdleCall
    /\ clock = 0
    /\ last_emit_time = None
    /\ BacktestOff
    /\ MonitorOff
    /\ FillOff
    /\ KeysOff
    /\ RetryOff
    /\ MainOff
    /\ OiOff
    /\ NewsOff
    /\ current_capital \in BotCapitals
    /\ bot_pc = "started"
    /\ placed = <<>>
    /\ cycle_start = [last_signal_time |-> None, current_capital |-> current_capital]

(* _execute_trading_cycle: `fetched` is the order book fetch_orderbook     *)
(* returned (None when it raised), `now` and `later` are the two readings  *)
(* of pd.Timestamp.now(), `reply` is what place_order answers if called    *)
ExecuteTradingCycle(fetched, now, later, reply) ==
    /\ bot_pc \in {"started", "cycled"}
    /\ bot_pc' = "cycled"
    /\ before' = Current
    /\ cycle_start' = [last_signal_time |-> last_signal_time,
                       current_capital |-> current_capital]
    /\ IF fetched = None
       THEN /\ signal' = FETCH_ERROR
            /\ order_book' = NoneBook
            /\ current_time' = None
            /\ placed' = <<>>
            /\ UNCHANGED <<strategyVars, current_capital, clock>>
       ELSE LET book == TheValue(fetched)
                r == GenerateSignalResult(Current, last_signal_time, profit_target,
                         stop_loss, order_book_depth, min_spread, book, Some(now))
                t == IF r.signal \in Signal /\ WantsTrade(r.signal)
                     THEN ExecuteTradeResult(r.signal, book, current_capital, reply)
                     ELSE [placed |-> <<>>, updated |-> FALSE,
                           capital |-> current_capital, price |-> RZero]
                b == BaseUpdatePosition(position, r.pos.entry_price, r.signal, t.price)
            IN  /\ signal' = r.signal
                /\ order_book' = book
                /\ current_time' = Some(now)
                /\ placed' = t.placed
                /\ current_capital' = t.capital
                /\ current_position' = r.pos.current_position
                /\ take_profit_price' = r.pos.take_profit_price
                /\ stop_loss_price' = r.pos.stop_loss_price
                /\ entry_price' = IF t.updated THEN b.entry_price ELSE r.pos.entry_price
                /\ position' = IF t.updated THEN b.position ELSE position
                /\ last_signal_time' = IF t.updated THEN Some(later) ELSE last_signal_time
                /\ clock' = IF t.updated THEN later ELSE now
                /\ UNCHANGED configVars
    /\ UNCHANGED <<pc, last_emit_time, backtestVars, monitorVars, fillVars,
                   keyVars, retryVars, mainVars, oiVars, newsVars>>

LaterTimes(now) == {t \in now..MaxTime : t - now \in {0, CooldownPeriod}}

BotNext ==
    \E fetched \in {None} \cup {Some(book) : book \in BotBooks},
       now \in NextTimes, reply \in Replies :
        \E later \in LaterTimes(now) :
            ExecuteTradingCycle(fetched, now, later, reply)

SpecBot == BotInit /\ [][BotNext]_vars

Cycled == bot_pc = "cycled"

OrderPlaced == placed # <<>>

OrderSucceeded == placed # <<>> /\ ~placed[1].reply.error

(* C25: a trading cycle places an order only when the signal is Buy or     *)
(* Sell, a 'buy' order for Buy and a 'sell' order for Sell; on Hold no     *)
(* order is placed and neither the strategy's cooldown timestamp nor the   *)
(* risk manager's capital changes.                                         *)
C25_HoldPlacesNoOrder ==
    Cycled =>
        /\ OrderPlaced => signal \in {BUY, SELL}
        /\ (OrderPlaced /\ signal = BUY) => placed[1].side = "buy"
        /\ (OrderPlaced /\ signal = SELL) => placed[1].side = "sell"
        /\ signal = HOLD =>
               /\ ~OrderPlaced
               /\ last_signal_time = cycle_start.last_signal_time
               /\ current_capital = cycle_start.current_capital

(* C26: a cycle in which no order was successfully placed (place_order     *)
(* answered an error, or the position size or the mid price was not        *)
(* positive) leaves current_position, entry_price, take_profit_price and   *)
(* stop_loss_price as they were, so the strategy is never Long or Short    *)
(* without a successful order.                                             *)
C26_PositionMatchesPlacedOrders ==
    (Cycled /\ ~OrderSucceeded) => Current = before

----------------------------------------------------------------------------
(* main of the orderbook monitor: the exchanges are initialised, the loop  *)
(* runs until an exception leaves it, and the finally clause closes every  *)
(* exchange.                                                               *)

MaxIterations == 2

(* the exchanges of Exchanges that are enabled and whose constructor did   *)
(* not raise, in configuration order                                       *)
Initialised(chosen) ==
    SelectSeq(Exchanges, LAMBDA name : name \in chosen)

(* how one pass of the while loop ends: it completes, Ctrl-C arrives, or   *)
(* detect_discrepancies raises                                             *)
IterationOutcomes == {"completed", "KeyboardInterrupt", ZERO_DIVISION_ERROR}

PcAfterCloseStoppingOnError(k, n, raises) == IF raises \/ k >= n THEN "done" ELSE "closing"

(* the for loop of the finally clause after its pass number k of n *)
PcAfterClose(k, n, raises) == IF k >= n THEN "done" ELSE "closing"

(* lines 41-69 *)
MainInit ==
    /\ StrategyIdle
    /\ IdleCall
    /\ clock = 0
    /\ last_emit_time = None
    /\ BacktestOff
    /\ MonitorOff
    /\ FillOff
    /\ KeysOff
    /\ RetryOff
    /\ BotOff
    /\ OiOff
    /\ NewsOff
    /\ \E chosen \in SUBSET {Exchanges[k] : k \in 1..Len(Exchanges)} :
           exchange_instances = Initialised(chosen)
    /\ iteration = 0
    /\ main_pc = IF exchange_instances = <<>> THEN "done" ELSE "loop"
    /\ stopped_by = None
    /\ close_calls = <<>>

(* lines 73-99: one pass of `while True` *)
MonitorIteration(outcome) ==
    /\ main_pc = "loop"
    /\ iteration < MaxIterations
    /\ iteration' = iteration + 1
    /\ IF outcome = "completed"
       THEN UNCHANGED <<main_pc, stopped_by>>
       ELSE /\ stopped_by' = Some(outcome)
            /\ main_pc' = PcAfterClose(0, Len(exchange_instances), FALSE)
    /\ UNCHANGED <<exchange_instances, close_calls, strategyVars, callVars,
                   backtestVars, monitorVars, fillVars, keyVars, retryVars,
                   botVars, oiVars, newsVars>>

(* lines 102-108: one pass of the for loop of the finally clause *)
CloseExchange(raises) ==
    /\ main_pc = "closing"
    /\ LET k == Len(close_calls) + 1
       IN  /\ close_calls' = Append(close_calls,
                  [exchange |-> exchange_instances[k], raised |-> raises])
           /\ main_pc' = PcAfterClose(k, Len(exchange_instances), raises)
    /\ UNCHANGED <<exchange_instances, iteration, stopped_by, strategyVars,
                   callVars, backtestVars, monitorVars, fillVars, keyVars,
                   retryVars, botVars, oiVars, newsVars>>

MainNext ==
    \/ \E outcome \in IterationOutcomes : MonitorIteration(outcome)
    \/ \E raises \in BOOLEAN : CloseExchange(raises)

SpecMain == MainInit /\ [][MainNext]_vars

ClosesOf(name) ==
    Cardinality({k \in 1..Len(close_calls) : close_calls[k].exchange = name})

(* C28: once the monitor loop has been left, by Ctrl-C or by any other     *)
(* exception, and main has finished, close() has been called exactly once  *)
(* on every initialised exchange, whether or not an earlier close()        *)
(* raised; no exchange is ever closed twice.                               *)
C28_ShutdownClosesEveryExchange ==
    /\ \A k \in 1..Len(exchange_instances) : ClosesOf(exchange_instances[k]) <= 1
    /\ (main_pc = "done" /\ stopped_by # None) =>
           \A k \in 1..Len(exchange_instances) : ClosesOf(exchange_instances[k]) = 1

C28_Witness_ClosedAfterFailedClose ==
    /\ main_pc = "done"
    /\ stopped_by = Some(ZERO_DIVISION_ERROR)
    /\ Len(exchange_instances) = 3
    /\ Len(close_calls) = 3
    /\ close_calls[1].raised
    /\ ~close_calls[3].raised

----------------------------------------------------------------------------
(* SymbolState of the futures monitor: the recent open-interest readings   *)
(* of one symbol                                                           *)

MaxLen == 2
MaxArrivals == 4
MaxLens == 0..MaxLen
OiValues == {100, 200, 400}
MeanWindows == 1..(MaxLen + 1)

(* Python's list[-m:] : the last m items for m > 0 (all of them when the   *)
(* list is shorter), and the whole list for m = 0 because -0 is 0          *)
LastItems(list, m) ==
    IF m = 0 \/ m >= Len(list) THEN list
    ELSE SubSeq(list, Len(list) - m + 1, Len(list))

RECURSIVE SumOf(_)
SumOf(list) == IF list = <<>> THEN 0 ELSE Head(list) + SumOf(Tail(list))

(* add_oi(oi, max_len) *)
AddOiResult(history, oi, limit) ==
    LET appended == Append(history, oi)
    IN  IF Len(appended) > limit THEN LastItems(appended, limit) ELSE appended

(* get_last_n_mean(n) *)
LastNMean(history, n) ==
    IF Len(history) < n THEN None
    ELSE LET subset == LastItems(history, n)
         IN  IF subset # <<>> THEN Some(Rat(SumOf(subset), Len(subset))) ELSE None

(* SymbolState() *)
OiInit ==
    /\ StrategyIdle
    /\ IdleCall
    /\ clock = 0
    /\ last_emit_time = None
    /\ BacktestOff
    /\ MonitorOff
    /\ FillOff
    /\ KeysOff
    /\ RetryOff
    /\ BotOff
    /\ MainOff
    /\ NewsOff
    /\ oi_history = <<>>
    /\ max_len \in MaxLens
    /\ oi_pc = "ready"
    /\ arrivals = <<>>
    /\ mean_n = None
    /\ mean_result = None

AddOi(oi) ==
    /\ oi_pc = "ready"
    /\ Len(arrivals) < MaxArrivals
    /\ oi_history' = AddOiResult(oi_history, oi, max_len)
    /\ arrivals' = Append(arrivals, oi)
    /\ mean_n' = None
    /\ mean_result' = None
    /\ UNCHANGED <<max_len, oi_pc, strategyVars, callVars, backtestVars,
                   monitorVars, fillVars, keyVars, retryVars, botVars, mainVars,
                   newsVars>>

GetLastNMean(n) ==
    /\ oi_pc = "ready"
    /\ mean_n' = Some(n)
    /\ mean_result' = LastNMean(oi_history, n)
    /\ UNCHANGED <<oi_history, max_len, oi_pc, arrivals, strategyVars, callVars,
                   backtestVars, monitorVars, fillVars, keyVars, retryVars,
                   botVars, mainVars, newsVars>>

OiNext ==
    \/ \E oi \in OiValues : AddOi(oi)
    \/ \E n \in MeanWindows : GetLastNMean(n)

SpecOi == OiInit /\ [][OiNext]_vars

Smaller(a, b) == IF a <= b THEN a ELSE b

(* the m most recent of the values that arrived, in arrival order *)
MostRecent(m) == SubSeq(arrivals, Len(arrivals) - m + 1, Len(arrivals))

(* C29: after any sequence of add_oi calls with one max_len, oi_history    *)
(* holds exactly the most recent min(k, max_len) of the k values given, in *)
(* arrival order, so it is never longer than max_len; get_last_n_mean(n)   *)
(* returns None if and only if fewer than n values are stored, and the     *)
(* mean of the last n otherwise.                                           *)
C29_BoundedOiHistory ==
    oi_pc = "ready" =>
        /\ oi_history = MostRecent(Smaller(Len(arrivals), max_len))
        /\ Len(oi_history) <= max_len
        /\ mean_n # None =>
               LET n == TheValue(mean_n)
               IN  /\ mean_result = None <=> Len(oi_history) < n
                   /\ Len(oi_history) >= n =>
                          mean_result =
                              Some(Rat(SumOf(SubSeq(oi_history, Len(oi_history) - n + 1,
                                                    Len(oi_history))), n))

----------------------------------------------------------------------------
(* CryptoNewsMonitor.check_for_new_news: the articles fetch_news returns   *)
(* are filtered against the ids seen, and the ids seen are saved.          *)

MaxArticles == 2
MaxCycles == 3
MISSING == "<missing>"
ArticleIds == {MISSING, "", "a", "b"}
Titles == {"Bitcoin News", "Bitcoin reaches new high"}
Articles == [id : ArticleIds, title : Titles]
SavedIds == SUBSET {"a"}

(* article.get('id', '') *)
GetId(article) == IF article.id = MISSING THEN "" ELSE article.id

(* a check that returns the unseen articles and remembers none of them *)
NewsCheckResultForgetting(articles, cache) == [new_articles |-> SelectSeq(articles, LAMBDA article : Truthy(GetId(article)) /\ GetId(article) \notin cache), news_cache |-> cache]

(* lines 294-300: the loop over the articles, on (new_articles, news_cache) *)
RECURSIVE NewsCheckResult(_, _)
NewsCheckResult(articles, cache) ==
    IF articles = <<>> THEN [new_articles |-> <<>>, news_cache |-> cache]
    ELSE LET article == Head(articles)
             article_id == GetId(article)
         IN  IF Truthy(article_id) /\ article_id \notin cache
             THEN LET rest == NewsCheckResult(Tail(articles), cache \cup {article_id})
                  IN  [new_articles |-> <<article>> \o rest.new_articles,
                       news_cache |-> rest.news_cache]
             ELSE NewsCheckResult(Tail(articles), cache)

(* CryptoNewsMonitor.__init__: the cache is what news_cache.json held *)
NewsInit ==
    /\ StrategyIdle
    /\ IdleCall
    /\ clock = 0
    /\ last_emit_time = None
    /\ BacktestOff
    /\ MonitorOff
    /\ FillOff
    /\ KeysOff
    /\ RetryOff
    /\ BotOff
    /\ MainOff
    /\ OiOff
    /\ cache_file \in SavedIds
    /\ news_cache = cache_file
    /\ news_pc = "ready"
    /\ cycles = 0
    /\ new_articles = <<>>
    /\ returned = <<>>
    /\ cache_before = news_cache

(* check_for_new_news when fetch_news returned `articles`; `saved` tells   *)
(* whether _save_news_cache could write the file                           *)
CheckForNewNews(articles, saved) ==
    /\ news_pc = "ready"
    /\ cycles < MaxCycles
    /\ cycles' = cycles + 1
    /\ cache_before' = news_cache
    /\ LET r == NewsCheckResult(articles, news_cache)
       IN  /\ new_articles' = r.new_articles
           /\ news_cache' = r.news_cache
           /\ returned' = returned \o r.new_articles
           /\ cache_file' = IF saved THEN r.news_cache ELSE cache_file
    /\ UNCHANGED <<news_pc, strategyVars, callVars, backtestVars, monitorVars,
                   fillVars, keyVars, retryVars, botVars, mainVars, oiVars>>

NewsNext ==
    \E articles \in SeqsUpTo(Articles, MaxArticles), saved \in BOOLEAN :
        CheckForNewNews(articles, saved)

SpecNews == NewsInit /\ [][NewsNext]_vars

(* C30: over any sequence of check_for_new_news calls on one monitor, no   *)
(* two articles returned as new carry the same id, every article returned  *)
(* has a non-empty id that is in news_cache afterwards, and news_cache     *)
(* never loses an id.                                                      *)
C30_NewsReturnedOnce ==
    news_pc = "ready" =>
        /\ \A j, k \in 1..Len(returned) :
               j # k => GetId(returned[j]) # GetId(returned[k])
        /\ \A k \in 1..Len(returned) :
               /\ Truthy(GetId(returned[k]))
               /\ GetId(returned[k]) \in news_cache
        /\ cache_before \subseteq news_cache

C30_Witness_SeenArticleNotReturnedAgain ==
    /\ news_pc = "ready"
    /\ cycles = 2
    /\ Len(returned) = 1
    /\ GetId(returned[1]) = "b"
    /\ new_articles = <<>>
    /\ cache_before = news_cache
    /\ "b" \in cache_before

====
